---- MODULE Spec2Model ----
(***************************************************************************)
(* Session / protocol layer of the peer-to-peer chat (chat-protocol.js):   *)
(* class ChatSession and class ChatProtocol, run by every node of Nodes,   *)
(* joined by libp2p streams.  A stream k has a dialer end 2k-1 and a       *)
(* listener end 2k; a ChatSession is identified by the stream end it owns. *)
(* Every async method is cut at its awaits: one action per synchronous     *)
(* segment, the pending continuations are the records of `calls`.          *)
(***************************************************************************)
EXTENDS Integers, Sequences, FiniteSets, TLC

\* ---------------------------------------------------------------- bounds
Nodes == {"A", "B", "C"}
MaxStreams == 2
MaxOps == 3
MaxPairOps == 2
\* Spec runs the code on the nodes of Local, the other peers are its
\* environment; PairSpec runs it on both ends of every stream.
Local == {"A"}
Pair == {"A", "B"}
Rooms == {"public"}
RawTypes == {"m.unknown.future"}

\* ------------------------------------------------------------- constants
NoPeer == "-"
NoMsg == [type |-> "none", sender |-> NoPeer, room_id |-> "", seq |-> 0, body |-> ""]

VARIABLES
  streams,   \* streams the transport has established: <<[dialer, listener]>>
  chan,      \* per stream end: state of the end, frames written by it and
             \* not yet read by the other end, write side closed
  sess,      \* per stream end: the ChatSession object constructed over it
  sessions,  \* per node: ChatProtocol.sessions, a Map in insertion order
  calls,     \* invocations of async methods suspended at an await
  last,      \* what the most recent application call returned
  events,    \* per node and peer: events emitted about that peer, in order
  history,   \* per node: storage.addMessage calls, in order
  ops,       \* number of things the application, the transport and the
             \* peers outside the model have done to the code so far
  localStorage \* window.localStorage: its entries [key, value] in key(i) order

vars == <<streams, chan, sess, sessions, calls, last, events, history, ops,
          localStorage>>

\* ------------------------------------------------------------- stream ends
DialerEnd(k) == 2 * k - 1
ListenerEnd(k) == 2 * k
Other(e) == IF e % 2 = 1 THEN e + 1 ELSE e - 1
Ends == 1..(2 * Len(streams))
EndOwner(e) == IF e % 2 = 1 THEN streams[(e + 1) \div 2].dialer ELSE streams[e \div 2].listener
Made == {e \in Ends : sess[e].made}

\* ------------------------------------------------------ Map (this.sessions)
MapHas(m, p) == \E i \in 1..Len(m) : m[i].peer = p
MapGet(m, p) == m[CHOOSE i \in 1..Len(m) : m[i].peer = p].sid
MapSet(m, p, s) ==
  IF MapHas(m, p)
  THEN [i \in 1..Len(m) |-> IF m[i].peer = p THEN [peer |-> p, sid |-> s] ELSE m[i]]
  ELSE Append(m, [peer |-> p, sid |-> s])
MapDelete(m, p) == SelectSeq(m, LAMBDA x : x.peer # p)

\* ---------------------------------------------------------------- messages
Hello(ourPeerId) ==
  [type |-> "hello", sender |-> ourPeerId, room_id |-> "", seq |-> 0, body |-> ""]
ChatMessage(self, roomId, seq, content) ==
  [type |-> "m.room.message", sender |-> self, room_id |-> roomId,
   seq |-> seq, body |-> content]
RawMessage(type, sender) ==
  [type |-> type, sender |-> sender, room_id |-> "", seq |-> 0, body |-> ""]

Ev(name, peerId, sid, msg) == [name |-> name, peerId |-> peerId, sid |-> sid, msg |-> msg]

\* ------------------------------------------------------------- ChatSession
NoSession ==
  [made |-> FALSE, owner |-> NoPeer, peerId |-> NoPeer, isActive |-> FALSE,
   seq |-> 0, outbound |-> <<>>, ended |-> FALSE, logged |-> {},
   inPump |-> "none", outPump |-> "none"]

\* a constructor that announces the node's nickname on the new session
NewSessionAnnounces(n, p) ==
  [made |-> TRUE, owner |-> n, peerId |-> p, isActive |-> TRUE,
   seq |-> 1, outbound |-> <<RawMessage("m.nickname", n)>>, ended |-> FALSE,
   logged |-> {}, inPump |-> "running", outPump |-> "running"]

\* constructor: fields set, handleStream() starts both pipes
NewSession(n, p) ==
  [made |-> TRUE, owner |-> n, peerId |-> p, isActive |-> TRUE,
   seq |-> 0, outbound |-> <<>>, ended |-> FALSE, logged |-> {},
   inPump |-> "running", outPump |-> "running"]

\* a push that leaves the counter alone
SendOkSameSeq(s, msg) == [s EXCEPT !.outbound = Append(@, msg)]

\* a send that length-prefixes the payload itself before it pushes it to the
\* pipe, which prefixes it again
SendOkEncodes(s, msg) ==
  [s EXCEPT !.outbound = Append(@, [len |-> 100, data |-> msg]), !.seq = @ + 1]

\* send(message) on an active session: outbound.push(data); seq++
SendOk(s, msg) == [s EXCEPT !.outbound = Append(@, msg), !.seq = @ + 1]

\* send(message) without the isActive check
SendUnchecked(ss, e, msg) == [threw |-> FALSE, ss |-> [ss EXCEPT ![e] = SendOk(@, msg)]]

\* send(message) of session e in the sessions ss: throws 'Session is not
\* active' with no effect, or pushes and returns
Send(ss, e, msg) ==
  IF ~ss[e].isActive
  THEN [threw |-> TRUE, ss |-> ss]
  ELSE [threw |-> FALSE, ss |-> [ss EXCEPT ![e] = SendOk(@, msg)]]

\* sendHandshake that sends nothing
SendHandshakeSkipped(ss, e, ourPeerId) == ss

\* sendHandshake(ourPeerId)
SendHandshake(ss, e, ourPeerId) == Send(ss, e, Hello(ourPeerId)).ss

\* handleSessionClose that clears the registry: sessions.clear()
HandleSessionCloseClears(st, n, peerId, e) ==
  [st EXCEPT !.sessions[n] = <<>>,
             !.events[n][peerId] = Append(@, Ev("chat:disconnected", peerId, e, NoMsg))]

\* ChatProtocol.handleSessionClose(peerId), on the part st of the state
HandleSessionClose(st, n, peerId, e) ==
  [st EXCEPT !.sessions[n] = MapDelete(@, peerId),
             !.events[n][peerId] = Append(@, Ev("chat:disconnected", peerId, e, NoMsg))]

\* close() without the `if (!this.isActive) return` guard
CloseUnguarded(st, e) ==
  HandleSessionClose(
    [st EXCEPT !.sess[e].isActive = FALSE, !.sess[e].ended = TRUE],
    st.sess[e].owner, st.sess[e].peerId, e)

\* ChatSession.close(), on the part st = [sess, sessions, events] of the state
Close(st, e) ==
  IF ~st.sess[e].isActive
  THEN st
  ELSE HandleSessionClose(
         [st EXCEPT !.sess[e].isActive = FALSE, !.sess[e].ended = TRUE],
         st.sess[e].owner, st.sess[e].peerId, e)

St == [sess |-> sess, sessions |-> sessions, events |-> events]
SetSt(st) == /\ sess' = st.sess
             /\ sessions' = st.sessions
             /\ events' = st.events

\* --------------------------------------------------------------- ChatProtocol
\* An invocation of an async method that is suspended at an await
Call(op, n, p, pc, sid, room, dials, msg) ==
  [op |-> op, node |-> n, peer |-> p, pc |-> pc, sid |-> sid, room |-> room,
   dials |-> dials, msg |-> msg]

\* What the most recent application call returned to its caller
Result(op, n, p, result, sid, dials, sent) ==
  [op |-> op, node |-> n, peer |-> p, result |-> result, sid |-> sid,
   dials |-> dials, sent |-> sent]
NoResult == Result("none", NoPeer, NoPeer, "none", 0, 0, <<>>)

Remove(q, c) == [i \in 1..(Len(q) - 1) |-> IF i < c THEN q[i] ELSE q[i + 1]]

\* one more thing done to the code from outside
TakeOp == ops < MaxOps /\ ops' = ops + 1

\* The peers are interchangeable: a run involves them in the order of PeerOrder
PeerOrder == <<"B", "C">>
Involved(p) ==
  \/ \E k \in 1..Len(streams) : p \in {streams[k].dialer, streams[k].listener}
  \/ \E c \in 1..Len(calls) : p \in {calls[c].node, calls[c].peer}
  \/ last.peer = p
InOrder(p) == \A i \in 1..Len(PeerOrder) :
                PeerOrder[i] = p => \A j \in 1..(i - 1) : Involved(PeerOrder[j])

Init ==
  /\ streams = <<>>
  /\ chan = <<>>
  /\ sess = <<>>
  /\ sessions = [n \in Nodes |-> <<>>]
  /\ calls = <<>>
  /\ last = NoResult
  /\ events = [n \in Nodes |-> [p \in Nodes |-> <<>>]]
  /\ history = [n \in Nodes |-> <<>>]
  /\ ops = 0
  /\ localStorage = <<>>

\* The stream the transport returns from dialProtocol: its dialer end is open,
\* its listener end waits for the remote protocol handler to be invoked.
NewChan == <<[st |-> "open", wire |-> <<>>, fin |-> FALSE],
             [st |-> "pending", wire |-> <<>>, fin |-> FALSE]>>

\* a sendMessage that stores and announces the message before it sends it
SendMessageTailStoresFirst(st, n, p, e, roomId, content, dials, stored) ==
  LET msg == ChatMessage(n, roomId, st.sess[e].seq, content)
      sent == Send(st.sess, e, msg)
      st2 == [st EXCEPT
                !.sess = sent.ss,
                !.history[n] = Append(@, [room |-> roomId, msg |-> msg]),
                !.events[n][p] = Append(@, Ev("message:sent", NoPeer, e, msg))]
  IN IF sent.threw \/ ~stored
     THEN [st2 EXCEPT !.last = Result("sendMessage", n, p, "error", e, dials, <<>>)]
     ELSE [st2 EXCEPT !.last = Result("sendMessage", n, p, "ok", e, dials,
                                      <<[peer |-> p, sid |-> e, msg |-> msg]>>)]

\* ------------------------------ sendMessage(peerId, content, roomId), the tail
\* From `const message = {...}` on: build the message with session.seq, send
\* it, then storage.addMessage and emit message:sent unless send threw.
\* storage.addMessage throws when the store cannot take the history
\* (stored FALSE): the message is pushed, sendMessage rejects.
\* st = [sess, events, history, last]; the continuation after
\* `await session.send(message)` runs in the same turn of the event loop.
SendMessageTail(st, n, p, e, roomId, content, dials, stored) ==
  LET msg == ChatMessage(n, roomId, st.sess[e].seq, content)
      sent == Send(st.sess, e, msg)
  IN IF sent.threw
     THEN [st EXCEPT !.last = Result("sendMessage", n, p, "error", e, dials, <<>>)]
     ELSE IF ~stored
     THEN [st EXCEPT !.sess = sent.ss,
                     !.last = Result("sendMessage", n, p, "error", e, dials, <<>>)]
     ELSE [st EXCEPT
             !.sess = sent.ss,
             !.history[n] = Append(@, [room |-> roomId, msg |-> msg]),
             !.events[n][p] = Append(@, Ev("message:sent", NoPeer, e, msg)),
             !.last = Result("sendMessage", n, p, "ok", e, dials,
                             <<[peer |-> p, sid |-> e, msg |-> msg]>>)]

\* The debug panel's raw message handler after `await openStream(...)`:
\* session.send(message)
RawSendTail(st, n, p, e, msg, dials) ==
  IF Send(st.sess, e, msg).threw
  THEN [st EXCEPT !.last = Result("raw", n, p, "error", e, dials, <<>>)]
  ELSE [st EXCEPT !.sess = Send(st.sess, e, msg).ss,
                  !.last = Result("raw", n, p, "ok", e, dials,
                                  <<[peer |-> p, sid |-> e, msg |-> msg]>>)]

Sh == [sess |-> sess, events |-> events, history |-> history, last |-> last]
SetSh(st) == /\ sess' = st.sess
             /\ events' = st.events
             /\ history' = st.history
             /\ last' = st.last

\* openStream without the `if (this.sessions.has(peerIdStr))` reuse
OpenStreamAlwaysDials(n, p) ==
  /\ TakeOp
  /\ p # n
  /\ InOrder(p)
  /\ calls' = Append(calls, Call("openStream", n, p, "dial", 0, "", 0, NoMsg))
  /\ UNCHANGED <<streams, chan, sess, sessions, events, history, last, localStorage>>

\* ---------------------------------------------------------- openStream(peerId)
\* openStream called by the application: an existing session is returned,
\* otherwise the call goes on to dial
OpenStreamBegin(n, p) ==
  /\ TakeOp
  /\ p # n
  /\ InOrder(p)
  /\ IF MapHas(sessions[n], p)
     THEN /\ last' = Result("openStream", n, p, "ok", MapGet(sessions[n], p), 0, <<>>)
          /\ calls' = calls
     ELSE /\ calls' = Append(calls, Call("openStream", n, p, "dial", 0, "", 0, NoMsg))
          /\ last' = last
  /\ UNCHANGED <<streams, chan, sess, sessions, events, history, localStorage>>

\* ------------------------------------------ P2PChatApp.startChatSession(peerId)
\* The /chat command: connectToPeer(node, peerId, CHAT_PROTOCOL) dials the
\* chat protocol itself and the stream it returns is dropped; no ChatSession
\* is made and sessions is not consulted.  When the dial fails (ok FALSE) the
\* error is displayed and nothing else happens.
StartChatSession(n, p, ok) ==
  /\ TakeOp
  /\ p # n
  /\ InOrder(p)
  /\ IF ok
     THEN /\ Len(streams) < MaxStreams
          /\ streams' = Append(streams, [dialer |-> n, listener |-> p])
          /\ chan' = chan \o NewChan
          /\ sess' = sess \o <<NoSession, NoSession>>
     ELSE UNCHANGED <<streams, chan, sess>>
  /\ UNCHANGED <<sessions, calls, events, history, last, localStorage>>

\* The debug panel's raw message handler: openStream, then session.send
RawSendBegin(n, p, type) ==
  /\ TakeOp
  /\ p # n
  /\ InOrder(p)
  /\ IF MapHas(sessions[n], p)
     THEN /\ SetSh(RawSendTail(Sh, n, p, MapGet(sessions[n], p), RawMessage(type, n), 0))
          /\ calls' = calls
     ELSE /\ calls' = Append(calls, Call("raw", n, p, "dial", 0, "", 0, RawMessage(type, n)))
          /\ UNCHANGED <<sess, events, history, last>>
  /\ UNCHANGED <<streams, chan, sessions, localStorage>>

\* sendMessage called by the application: with a session in the registry it
\* runs to its end, otherwise it awaits openStream
SendMessageBegin(n, p, roomId, stored) ==
  /\ TakeOp
  /\ p # n
  /\ InOrder(p)
  /\ IF MapHas(sessions[n], p)
     THEN /\ SetSh(SendMessageTail(Sh, n, p, MapGet(sessions[n], p), roomId, "hi", 0, stored))
          /\ calls' = calls
     ELSE /\ stored
          /\ calls' = Append(calls, Call("sendMessage", n, p, "dial", 0, roomId, 0, NoMsg))
          /\ UNCHANGED <<sess, events, history, last>>
  /\ UNCHANGED <<streams, chan, sessions, localStorage>>

\* dialProtocol resolves (first attempt, or the attempt after node.dial):
\* new ChatSession, sessions.set, sendHandshake up to its await
DialResolve(c) ==
  /\ c \in 1..Len(calls)
  /\ calls[c].pc \in {"dial", "retry"}
  /\ Len(streams) < MaxStreams
  /\ LET n == calls[c].node
         p == calls[c].peer
         e == DialerEnd(Len(streams) + 1)
         ss == sess \o <<NewSession(n, p), NoSession>>
     IN /\ streams' = Append(streams, [dialer |-> n, listener |-> p])
        /\ chan' = chan \o NewChan
        /\ sess' = SendHandshake(ss, e, n)
        /\ sessions' = [sessions EXCEPT ![n] = MapSet(@, p, e)]
        /\ calls' = [calls EXCEPT ![c].pc = "emit", ![c].sid = e, ![c].dials = @ + 1]
  /\ UNCHANGED <<events, history, last, ops, localStorage>>

\* a failing dial that announces the peer as connected before it throws
DialFailAnnounces(c, hadConn) ==
  /\ c \in 1..Len(calls)
  /\ calls[c].pc = "dial"
  /\ TakeOp
  /\ calls' = Remove(calls, c)
  /\ last' = Result(calls[c].op, calls[c].node, calls[c].peer, "error", 0,
                    calls[c].dials + 1, <<>>)
  /\ events' = [events EXCEPT ![calls[c].node][calls[c].peer] =
                  Append(@, Ev("chat:connected", calls[c].peer, 0, NoMsg))]
  /\ UNCHANGED <<streams, chan, sess, sessions, history, localStorage>>

\* dialProtocol rejects.  With a connection to the peer (hadConn:
\* existingConnections.length > 0) the error is thrown to the caller,
\* without one node.dial and a second dialProtocol are tried.
DialFail(c, hadConn) ==
  /\ c \in 1..Len(calls)
  /\ calls[c].pc = "dial"
  /\ TakeOp
  /\ IF hadConn
     THEN /\ calls' = Remove(calls, c)
          /\ last' = Result(calls[c].op, calls[c].node, calls[c].peer, "error", 0,
                            calls[c].dials + 1, <<>>)
     ELSE /\ calls' = [calls EXCEPT ![c].pc = "retry", ![c].dials = @ + 1]
          /\ last' = last
  /\ UNCHANGED <<streams, chan, sess, sessions, events, history, localStorage>>

\* node.dial rejects (redial FALSE), or the second dialProtocol rejects
RetryFail(c, redial) ==
  /\ c \in 1..Len(calls)
  /\ calls[c].pc = "retry"
  /\ TakeOp
  /\ calls' = Remove(calls, c)
  /\ last' = Result(calls[c].op, calls[c].node, calls[c].peer, "error", 0,
                    IF redial THEN calls[c].dials + 1 ELSE calls[c].dials, <<>>)
  /\ UNCHANGED <<streams, chan, sess, sessions, events, history, localStorage>>

\* after `await session.sendHandshake(...)`: emit chat:connected and return;
\* a caller that awaited openStream goes on with the returned session
Connected(c, stored) ==
  /\ c \in 1..Len(calls)
  /\ calls[c].pc = "emit"
  /\ stored \/ calls[c].op = "sendMessage"
  /\ LET n == calls[c].node
         p == calls[c].peer
         e == calls[c].sid
         st == [Sh EXCEPT !.events[n][p] = Append(@, Ev("chat:connected", p, e, NoMsg))]
     IN CASE calls[c].op = "sendMessage" ->
               SetSh(SendMessageTail(st, n, p, e, calls[c].room, "hi", calls[c].dials, stored))
          [] calls[c].op = "raw" ->
               SetSh(RawSendTail(st, n, p, e, calls[c].msg, calls[c].dials))
          [] calls[c].op = "openStream" ->
               SetSh([st EXCEPT !.last = Result("openStream", n, p, "ok", e, calls[c].dials, <<>>)])
          [] OTHER -> SetSh(st)
  /\ calls' = Remove(calls, c)
  /\ UNCHANGED <<streams, chan, sessions, ops, localStorage>>

\* a broadcast that awaits its sends one after the other and gives up at
\* the first that rejects
RECURSIVE BroadcastLoopStops(_, _, _, _, _, _)
BroadcastLoopStops(st, m, i, n, roomId, failAt) ==
  IF i > Len(m)
  THEN st
  ELSE LET st2 == SendMessageTail(st, n, m[i].peer, m[i].sid, roomId, "yo", 0, i # failAt)
           st3 == [st2 EXCEPT !.last = [st.last EXCEPT !.sent = @ \o st2.last.sent]]
       IN IF st2.last.result = "error" THEN st3
          ELSE BroadcastLoopStops(st3, m, i + 1, n, roomId, failAt)

\* ------------------------------------------------ broadcast(content, roomId)
\* One sendMessage per registered session that is active, in the order of
\* the Map; Promise.allSettled awaits them all and never rejects.  failAt is
\* the place in the Map of the session whose sendMessage fails to store its
\* message (0: none does).
RECURSIVE BroadcastLoop(_, _, _, _, _, _)
BroadcastLoop(st, m, i, n, roomId, failAt) ==
  IF i > Len(m)
  THEN st
  ELSE IF st.sess[m[i].sid].isActive
       THEN LET st2 == SendMessageTail(st, n, m[i].peer, m[i].sid, roomId, "yo", 0, i # failAt)
            IN BroadcastLoop([st2 EXCEPT !.last = [st.last EXCEPT !.sent = @ \o st2.last.sent]],
                             m, i + 1, n, roomId, failAt)
       ELSE BroadcastLoop(st, m, i + 1, n, roomId, failAt)

Broadcast(n, roomId, failAt) ==
  /\ TakeOp
  /\ failAt \in 0..Len(sessions[n])
  /\ SetSh(BroadcastLoop([Sh EXCEPT !.last = Result("broadcast", n, NoPeer, "ok", 0, 0, <<>>)],
                         sessions[n], 1, n, roomId, failAt))
  /\ UNCHANGED <<streams, chan, sessions, calls, localStorage>>

\* handleIncomingStream without the duplicate check: the new session
\* replaces the registered one
HandleIncomingStreamReplaces(k) ==
  /\ k \in 1..Len(streams)
  /\ chan[ListenerEnd(k)].st = "pending"
  /\ LET e == ListenerEnd(k)
         n == streams[k].listener
         peerId == streams[k].dialer
     IN /\ chan' = [chan EXCEPT ![e].st = "open"]
        /\ sess' = SendHandshake([sess EXCEPT ![e] = NewSession(n, peerId)], e, n)
        /\ sessions' = [sessions EXCEPT ![n] = MapSet(@, peerId, e)]
        /\ calls' = Append(calls,
             Call("handleIncomingStream", n, peerId, "emit", e, "", 0, NoMsg))
  /\ UNCHANGED <<streams, events, history, ops, last, localStorage>>

\* ------------------------------------------- handleIncomingStream({stream, connection})
HandleIncomingStream(k) ==
  /\ k \in 1..Len(streams)
  /\ chan[ListenerEnd(k)].st = "pending"
  /\ LET e == ListenerEnd(k)
         n == streams[k].listener
         peerId == streams[k].dialer
     IN IF MapHas(sessions[n], peerId)
        THEN \* duplicate: await stream.close(); return
             /\ chan' = [chan EXCEPT ![e].st = "closed", ![e].fin = TRUE]
             /\ UNCHANGED <<sess, sessions, calls>>
        ELSE /\ chan' = [chan EXCEPT ![e].st = "open"]
             /\ sess' = SendHandshake([sess EXCEPT ![e] = NewSession(n, peerId)], e, n)
             /\ sessions' = [sessions EXCEPT ![n] = MapSet(@, peerId, e)]
             /\ calls' = Append(calls,
                  Call("handleIncomingStream", n, peerId, "emit", e, "", 0, NoMsg))
  /\ UNCHANGED <<streams, events, history, ops, last, localStorage>>

\* --------------------------------------------- handleMessage(message, peerId)
\* a 'hello' handler that answers the Hello of the peer with one more Hello
\* on a session made from an inbound stream
HandleMessageReplies(st, n, msg, peerId, e) ==
  IF msg.type = "hello"
  THEN [st EXCEPT !.events[n][peerId] = Append(@, Ev("peer:handshake", peerId, e, NoMsg)),
                  !.sess = IF e % 2 = 0 THEN SendHandshake(@, e, n) ELSE @]
  ELSE st

\* handlers that wait for the Hello of the peer: until it has come, every
\* other message is dropped
HandleMessageGated(st, n, msg, peerId, e) ==
  LET greeted == \E i \in 1..Len(st.events[n][peerId]) :
                   /\ st.events[n][peerId][i].name = "peer:handshake"
                   /\ st.events[n][peerId][i].sid = e
  IN CASE msg.type = "hello" ->
            [st EXCEPT !.events[n][peerId] = Append(@, Ev("peer:handshake", peerId, e, NoMsg))]
       [] msg.type = "m.room.message" /\ greeted ->
            [st EXCEPT !.history[n] = Append(@, [room |-> msg.room_id, msg |-> msg]),
                       !.events[n][peerId] = Append(@, Ev("message:received", NoPeer, e, msg))]
       [] OTHER -> st

\* handlers that take the peer from the sender field of the message
HandleMessageTrustsSender(st, n, msg, peerId, e) ==
  CASE msg.type = "hello" ->
         [st EXCEPT !.events[n][msg.sender] =
                      Append(@, Ev("peer:handshake", msg.sender, e, NoMsg))]
    [] msg.type = "m.room.message" ->
         [st EXCEPT !.history[n] = Append(@, [room |-> msg.room_id, msg |-> msg]),
                    !.events[n][msg.sender] = Append(@, Ev("message:received", NoPeer, e, msg))]
    [] msg.type = "m.typing" ->
         [st EXCEPT !.events[n][msg.sender] =
                      Append(@, Ev("peer:typing", msg.sender, e, [msg EXCEPT !.sender = NoPeer]))]
    [] msg.type = "m.nickname" ->
         [st EXCEPT !.events[n][msg.sender] =
                      Append(@, Ev("peer:nickname", msg.sender, e, [msg EXCEPT !.sender = NoPeer]))]
    [] OTHER -> [st EXCEPT !.sess[e].logged = @ \cup {"Unknown message type"}]

\* handlers that treat a type they do not know as a protocol error and stop
\* the session
HandleMessageStrict(st, n, msg, peerId, e) ==
  CASE msg.type = "hello" ->
         [st EXCEPT !.events[n][peerId] = Append(@, Ev("peer:handshake", peerId, e, NoMsg))]
    [] msg.type = "m.room.message" ->
         [st EXCEPT !.history[n] = Append(@, [room |-> msg.room_id, msg |-> msg]),
                    !.events[n][peerId] = Append(@, Ev("message:received", NoPeer, e, msg))]
    [] OTHER -> [st EXCEPT !.sess[e].isActive = FALSE, !.sess[e].outPump = "done",
                           !.sess[e].inPump = "done"]

\* The registered handlers, run for session e of node n on the part
\* st = [sess, events, history, last] of the state; a type without handler
\* is logged and dropped.  logged holds the lines written to the console
\* about the frames of session e.
HandleMessage(st, n, msg, peerId, e) ==
  CASE msg.type = "hello" ->
         [st EXCEPT !.events[n][peerId] = Append(@, Ev("peer:handshake", peerId, e, NoMsg))]
    [] msg.type = "m.room.message" ->
         [st EXCEPT !.history[n] = Append(@, [room |-> msg.room_id, msg |-> msg]),
                    !.events[n][peerId] = Append(@, Ev("message:received", NoPeer, e, msg))]
    [] msg.type = "m.typing" ->
         [st EXCEPT !.events[n][peerId] =
                      Append(@, Ev("peer:typing", peerId, e, [msg EXCEPT !.sender = NoPeer]))]
    [] msg.type = "m.nickname" ->
         [st EXCEPT !.events[n][peerId] =
                      Append(@, Ev("peer:nickname", peerId, e, [msg EXCEPT !.sender = NoPeer]))]
    [] OTHER -> [st EXCEPT !.sess[e].logged = @ \cup {"Unknown message type"}]

\* ------------------------------------------------ ChatSession.handleStream()
\* Framing.  The frame size a node advertises in its Hello
\* (capabilities.maxFrame), and the longest frame lp.decode accepts: the pipe
\* is given lp.decode without options, so it is the decoder's own default,
\* 4 MiB.
MaxFrame == 131072
MaxDataLength == 4 * 1024 * 1024
\* Bodies that make the JSON text of a message one byte longer than each
BigBody == "<MaxFrame + 1 bytes>"
HugeBody == "<MaxDataLength + 1 bytes>"
\* the length in bytes of the JSON text of a payload
Size(payload) ==
  IF "body" \notin DOMAIN payload THEN payload.len + 1
  ELSE CASE payload.body = BigBody -> MaxFrame + 1
         [] payload.body = HugeBody -> MaxDataLength + 1
         [] OTHER -> 100
\* lp.encode: the payload behind its length; lp.decode: the payload of a
\* frame, an error for a frame longer than the decoder accepts
LpEncode(payload) == [len |-> Size(payload), data |-> payload]
LpDecodes(frame) == frame.len <= MaxDataLength
LpDecode(frame) == frame.data

\* A frame body that is no JSON text, and JSON.parse of a frame body
NotJson == RawMessage("<not json>", NoPeer)
JsonParses(data) == "type" \in DOMAIN data /\ data # NotJson

\* an inbound loop without the try around JSON.parse: the error ends the loop
OnFrameParseEscapes(st, n, data, peerId, e) ==
  IF data # RawMessage("<not json>", NoPeer)
  THEN HandleMessage(st, n, data, peerId, e)
  ELSE [st EXCEPT !.sess[e].isActive = FALSE, !.sess[e].inPump = "done"]

\* the body of the inbound loop for one decoded frame: parse it and hand it
\* to onMessage; what either throws is caught, logged and the frame dropped
OnFrame(st, n, data, peerId, e) ==
  IF JsonParses(data)
  THEN HandleMessage(st, n, data, peerId, e)
  ELSE [st EXCEPT !.sess[e].logged = @ \cup {"Message parse error"}]

\* an outbound pipe that writes the payload pushed last
OutboundPumpLifo(e) ==
  /\ e \in Made
  /\ sess[e].outPump = "running"
  /\ sess[e].outbound # <<>>
  /\ sess' = [sess EXCEPT ![e].outbound = SubSeq(@, 1, Len(@) - 1)]
  /\ chan' = [chan EXCEPT ![e].wire =
                  Append(@, LpEncode(sess[e].outbound[Len(sess[e].outbound)]))]
  /\ UNCHANGED <<streams, sessions, calls, events, history, ops, last, localStorage>>

\* outbound pipe: pushable -> lp.encode -> stream.sink, one payload
OutboundPump(e) ==
  /\ e \in Made
  /\ sess[e].outPump = "running"
  /\ sess[e].outbound # <<>>
  /\ sess' = [sess EXCEPT ![e].outbound = Tail(@)]
  /\ chan' = [chan EXCEPT ![e].wire = Append(@, LpEncode(Head(sess[e].outbound)))]
  /\ UNCHANGED <<streams, sessions, calls, events, history, ops, last, localStorage>>

\* outbound pipe: the pushable was ended and is drained, the sink returns
OutboundEnd(e) ==
  /\ e \in Made
  /\ sess[e].outPump = "running"
  /\ sess[e].outbound = <<>>
  /\ sess[e].ended
  /\ sess' = [sess EXCEPT ![e].outPump = "done"]
  /\ chan' = [chan EXCEPT ![e].fin = TRUE]
  /\ UNCHANGED <<streams, sessions, calls, events, history, ops, last, localStorage>>

\* outbound pipe rejects: .catch(err => this.close())
OutboundError(e) ==
  /\ e \in Made
  /\ sess[e].outPump = "running"
  /\ TakeOp
  /\ SetSt(Close([St EXCEPT !.sess[e].outPump = "done"], e))
  /\ UNCHANGED <<streams, chan, calls, history, last, localStorage>>

\* inbound pipe: one frame decoded, parsed and handed to onMessage; a frame
\* lp.decode rejects ends the pipe: catch, finally { this.close() }
InboundPump(e) ==
  /\ e \in Made
  /\ sess[e].inPump = "running"
  /\ chan[Other(e)].wire # <<>>
  /\ LET frame == Head(chan[Other(e)].wire)
     IN IF LpDecodes(frame)
        THEN /\ SetSh(OnFrame(Sh, sess[e].owner, LpDecode(frame), sess[e].peerId, e))
             /\ sessions' = sessions
        ELSE /\ SetSt(Close([St EXCEPT !.sess[e].inPump = "done"], e))
             /\ UNCHANGED <<history, last>>
  /\ chan' = [chan EXCEPT ![Other(e)].wire = Tail(@)]
  /\ UNCHANGED <<streams, calls, ops, localStorage>>

\* inbound pipe: the source ends; finally { this.close() }
InboundEnd(e) ==
  /\ e \in Made
  /\ sess[e].inPump = "running"
  /\ chan[Other(e)].wire = <<>>
  /\ chan[Other(e)].fin
  /\ SetSt(Close([St EXCEPT !.sess[e].inPump = "done"], e))
  /\ UNCHANGED <<streams, chan, calls, history, ops, last, localStorage>>

\* inbound pipe: the source or lp.decode throws; catch, finally { this.close() }
InboundError(e) ==
  /\ e \in Made
  /\ sess[e].inPump = "running"
  /\ TakeOp
  /\ SetSt(Close([St EXCEPT !.sess[e].inPump = "done"], e))
  /\ UNCHANGED <<streams, chan, calls, history, last, localStorage>>

\* ------------------------------------------- closeSession / closeAllSessions
\* a closeSession that announces the peer as disconnected whether or not it
\* has a session
CloseSessionAnnounces(n, peerId) ==
  /\ TakeOp
  /\ IF MapHas(sessions[n], peerId)
     THEN SetSt(Close(St, MapGet(sessions[n], peerId)))
     ELSE /\ events' = [events EXCEPT ![n][peerId] =
                          Append(@, Ev("chat:disconnected", peerId, 0, NoMsg))]
          /\ UNCHANGED <<sess, sessions>>
  /\ UNCHANGED <<streams, chan, calls, history, last, localStorage>>

\* const session = this.sessions.get(peerId); if (session) session.close()
CloseSession(n, peerId) ==
  /\ TakeOp
  /\ IF MapHas(sessions[n], peerId)
     THEN SetSt(Close(St, MapGet(sessions[n], peerId)))
     ELSE UNCHANGED <<sess, sessions, events>>
  /\ UNCHANGED <<streams, chan, calls, history, last, localStorage>>

\* a loop over a copy of the registry by position: the entry that follows
\* a deleted one is skipped
RECURSIVE CloseAllLoopSkips(_, _, _)
CloseAllLoopSkips(st, n, i) ==
  IF i > Len(st.sessions[n])
  THEN st
  ELSE CloseAllLoopSkips(Close(st, st.sessions[n][i].sid), n, i + 1)

\* for (const session of this.sessions.values()) session.close():
\* a live iteration, entries deleted by close() are skipped over
RECURSIVE CloseAllLoop(_, _, _)
CloseAllLoop(st, n, i) ==
  IF i > Len(st.sessions[n])
  THEN st
  ELSE LET st2 == Close(st, st.sessions[n][i].sid)
       IN IF Len(st2.sessions[n]) >= i /\ st2.sessions[n][i] = st.sessions[n][i]
          THEN CloseAllLoop(st2, n, i + 1)
          ELSE CloseAllLoop(st2, n, i)

CloseAllSessions(n) ==
  /\ IF sessions[n] # <<>> THEN TakeOp ELSE UNCHANGED ops
  /\ SetSt(CloseAllLoop(St, n, 1))
  /\ UNCHANGED <<streams, chan, calls, history, last, localStorage>>

\* ------------------------------------------------- peers outside the model
\* A peer that is not a modelled node dials this node: the transport will
\* invoke the protocol handler with the listener end of the new stream.
PeerDial(p, n) ==
  /\ p # n
  /\ InOrder(p)
  /\ Len(streams) < MaxStreams
  /\ TakeOp
  /\ streams' = Append(streams, [dialer |-> p, listener |-> n])
  /\ chan' = chan \o NewChan
  /\ sess' = sess \o <<NoSession, NoSession>>
  /\ UNCHANGED <<sessions, calls, events, history, last, localStorage>>

\* The frames such a peer may send: its sender field is the peer's own id or
\* another one, its room the public room or the direct room of the node and
\* any peer, its type may have no handler, its body may be no JSON, it may be
\* longer than the frame size the node advertised
Senders(p) == {p, "C"}
\* the room id of two nodes' direct messages: generateRoomId of their peer
\* ids, which is one id per unordered pair
RoomIdOf(n, p) ==
  CASE {n, p} = {"A", "B"} -> "room(A,B)"
    [] {n, p} = {"A", "C"} -> "room(A,C)"
    [] OTHER -> "room(B,C)"
PeerFrames(p) ==
  {Hello(q) : q \in Senders(p)}
    \cup {ChatMessage(q, "public", 0, "hey") : q \in Senders(p)}
    \cup {ChatMessage(p, RoomIdOf(n, q), 0, "hey") : n \in Local, q \in Nodes \ Local}
    \cup {ChatMessage(p, "public", 0, b) : b \in {BigBody, HugeBody}}
    \cup {RawMessage("m.typing", "C"), RawMessage("m.nickname", "C")}
    \cup {RawMessage("m.unknown.future", p), NotJson}

\* inbound pipe of a session whose peer is outside the model: the next frame
\* of the stream is the peer's encoding of any of its payloads
PeerFrame(e, msg) ==
  /\ e \in Made
  /\ sess[e].inPump = "running"
  /\ TakeOp
  /\ LET frame == LpEncode(msg)
     IN IF LpDecodes(frame)
        THEN /\ SetSh(OnFrame(Sh, sess[e].owner, LpDecode(frame), sess[e].peerId, e))
             /\ sessions' = sessions
        ELSE /\ SetSt(Close([St EXCEPT !.sess[e].inPump = "done"], e))
             /\ UNCHANGED <<history, last>>
  /\ UNCHANGED <<streams, chan, calls, localStorage>>

\* Such a peer closes its end of the stream (as a duplicate, or later)
PeerClose(e) ==
  /\ e \in Ends
  /\ ~chan[e].fin
  /\ TakeOp
  /\ chan' = [chan EXCEPT ![e].st = "closed", ![e].fin = TRUE]
  /\ UNCHANGED <<streams, sess, sessions, calls, events, history, last, localStorage>>

\* ----------------------------------------------------------------- the system
Code(N, P) ==
  \/ \E n \in N, p \in P : OpenStreamBegin(n, p)
  \/ \E n \in N, p \in P, t \in RawTypes : RawSendBegin(n, p, t)
  \/ \E n \in N, p \in P, r \in Rooms, stored \in BOOLEAN : SendMessageBegin(n, p, r, stored)
  \/ \E c \in 1..Len(calls) : DialResolve(c)
  \/ \E c \in 1..Len(calls), hc \in BOOLEAN : DialFail(c, hc)
  \/ \E c \in 1..Len(calls), redial \in BOOLEAN : RetryFail(c, redial)
  \/ \E c \in 1..Len(calls), stored \in BOOLEAN : Connected(c, stored)
  \/ \E n \in N, r \in Rooms, failAt \in 0..MaxStreams : Broadcast(n, r, failAt)
  \/ \E k \in 1..Len(streams) : streams[k].listener \in N /\ HandleIncomingStream(k)
  \/ \E e \in Ends : OutboundPump(e)
  \/ \E e \in Ends : OutboundEnd(e)
  \/ \E e \in Ends : OutboundError(e)
  \/ \E e \in Ends : InboundEnd(e)
  \/ \E e \in Ends : InboundError(e)
  \/ \E n \in N, p \in P : CloseSession(n, p)
  \/ \E n \in N : CloseAllSessions(n)
  \/ \E n \in N, p \in P, ok \in BOOLEAN : StartChatSession(n, p, ok)

\* The peers outside N, seen from the nodes of N
Peers(N) ==
  \/ \E p \in Nodes \ N, n \in N : PeerDial(p, n)
  \/ \E e \in Ends : \E msg \in PeerFrames(EndOwner(Other(e))) :
        EndOwner(Other(e)) \notin N /\ PeerFrame(e, msg)
  \/ \E e \in Ends : EndOwner(e) \notin N /\ PeerClose(e)

Next == Code(Local, Nodes) \/ Peers(Local)

Spec == Init /\ [][Next]_vars

\* Both ends of every stream run the code, the application makes at most
\* MaxPairOps calls.  The event loop runs every
\* continuation that is ready, the transport invokes the protocol handler
\* for every stream it accepted, and the pipes of a session move every
\* payload they can.
NextPair ==
  \/ \E n \in Pair, p \in Pair : ops < MaxPairOps /\ OpenStreamBegin(n, p)
  \/ \E c \in 1..Len(calls) : DialResolve(c)
  \/ \E c \in 1..Len(calls) : Connected(c, TRUE)
  \/ \E k \in 1..Len(streams) : HandleIncomingStream(k)
  \/ \E e \in Ends : OutboundPump(e)
  \/ \E e \in Ends : OutboundEnd(e)
  \/ \E e \in Ends : InboundPump(e)
  \/ \E e \in Ends : InboundEnd(e)
  \/ \E n \in Pair, p \in Pair : ops < MaxPairOps /\ CloseSession(n, p)

Fairness ==
  /\ \A k \in 1..MaxStreams : WF_vars(HandleIncomingStream(k))
  /\ \A c \in 1..MaxOps : WF_vars(Connected(c, TRUE))
  /\ \A e \in 1..(2 * MaxStreams) :
       /\ WF_vars(OutboundPump(e))
       /\ WF_vars(OutboundEnd(e))
       /\ WF_vars(InboundPump(e))
       /\ WF_vars(InboundEnd(e))

PairSpec == Init /\ [][NextPair]_vars /\ Fairness

\* The node of Local with its event loop, handler and pipes scheduled as in
\* PairSpec; nothing is assumed of the peers outside the model.
FairSpec == Init /\ [][Next]_vars /\ Fairness

\* Both ends of every stream run the code and the application also sends
\* messages: what is pushed at one end of a stream is read at the other.
NextWire ==
  \/ NextPair
  \/ \E n \in Pair, p \in Pair, r \in Rooms :
        ops < MaxPairOps /\ SendMessageBegin(n, p, r, TRUE)

WireSpec == Init /\ [][NextWire]_vars

\* ------------------------------ ChatProtocol.generateRoomId(peerId1, peerId2)
\* Strings are sequences of character codes; MaxIdLen and Alphabet bound the
\* peer ids tried
MaxIdLen == 2
Alphabet == 1..3
Colon == 0
PeerIdStrings == UNION {[1..k -> Alphabet] : k \in 1..MaxIdLen}

\* a < b as JavaScript compares strings: by the first differing code unit,
\* a proper prefix first
StringLess(a, b) ==
  \/ \E i \in 1..Len(a) :
       /\ i <= Len(b)
       /\ a[i] < b[i]
       /\ \A j \in 1..(i - 1) : a[j] = b[j]
  \/ Len(a) < Len(b) /\ \A j \in 1..Len(a) : a[j] = b[j]

\* [peerId1, peerId2].sort()
Sorted(peerId1, peerId2) ==
  IF StringLess(peerId2, peerId1) THEN <<peerId2, peerId1>> ELSE <<peerId1, peerId2>>

\* crypto.subtle.digest('SHA-256', data): 32 bytes that depend on every code
\* of data and on their order (a stand-in for the digest)
RECURSIVE Mix(_, _)
Mix(data, acc) ==
  IF data = <<>> THEN acc
  ELSE Mix(Tail(data), (acc * 33 + Head(data) + 1) % 65536)
Digest(data) == [i \in 1..32 |-> (Mix(data, 5381) * i + i + (Mix(data, 5381) \div i)) % 256]

\* hashArray.map(b => b.toString(16).padStart(2, '0')).join(''): two hex
\* digits per byte, a digit given by its value
HashHex(bytes) ==
  [i \in 1..(2 * Len(bytes)) |->
     IF i % 2 = 1 THEN bytes[(i + 1) \div 2] \div 16 ELSE bytes[i \div 2] % 16]

\* a room id made from the two ids in the order given
generateRoomIdUnsorted(peerId1, peerId2) ==
  SubSeq(HashHex(Digest(peerId1 \o <<Colon>> \o peerId2)), 1, 16)

\* sorted.join(':'), digest, hex, substring(0, 16)
generateRoomId(peerId1, peerId2) ==
  LET sorted == Sorted(peerId1, peerId2)
      combined == sorted[1] \o <<Colon>> \o sorted[2]
  IN SubSeq(HashHex(Digest(combined)), 1, 16)

\* the application asks for the room of two peers
CallGenerateRoomId(peerId1, peerId2) ==
  /\ last' = Result("generateRoomId", NoPeer, NoPeer, "ok", 0, 0,
                    <<peerId1, peerId2, generateRoomId(peerId1, peerId2)>>)
  /\ UNCHANGED <<streams, chan, sess, sessions, calls, events, history, ops, localStorage>>

RoomNext == \E peerId1 \in PeerIdStrings, peerId2 \in PeerIdStrings :
              CallGenerateRoomId(peerId1, peerId2)

RoomSpec == Init /\ [][RoomNext]_vars

\* ------------------------------------------------ Storage (window.localStorage)
\* A string with dashes is the sequence of its dash-free parts, so that
\* `${prefix}-${key}` is prefix \o key.  MaxStoreOps bounds the calls made;
\* Prefill are the numbers of addMessage calls already made on room1 when a
\* run starts.
MAX_MESSAGES_PER_ROOM == 1000
DefaultLimit == 100
MaxStoreOps == 2
Prefill == {0, 1, 2, 99, 100, 101, 999, 1000, 1001, 1100}
StoreRooms == {"room1", "room2"}
Limits == {0, 1, 10, 2000}
\* new Storage() and new ChatHistoryStorage(), by their prefix
StoragePrefix == <<"libp2p">>
HistoryPrefix == <<"libp2p", "chat">>
\* new SettingsStorage() and new FriendsStorage()
SettingsPrefix == <<"libp2p", "settings">>
FriendsPrefix == <<"libp2p", "friends">>
Prefixes == {StoragePrefix, HistoryPrefix, SettingsPrefix, FriendsPrefix}
\* keys of the page's other code, and the keys the application sets through
\* its Storage instance
ForeignKeys == {<<"other", "key">>, <<"libp2pX", "key">>, <<"libp2p">>}
StorageKeys == {<<"libp2p", "keys">>}

\* localStorage.getItem / setItem / removeItem
HasItem(ls, key) == \E i \in 1..Len(ls) : ls[i].key = key
GetItem(ls, key) == ls[CHOOSE i \in 1..Len(ls) : ls[i].key = key].value
SetItem(ls, key, value) ==
  IF HasItem(ls, key)
  THEN LET i == CHOOSE j \in 1..Len(ls) : ls[j].key = key
       IN SubSeq(ls, 1, i - 1) \o <<[key |-> key, value |-> value]>>
            \o SubSeq(ls, i + 1, Len(ls))
  ELSE Append(ls, [key |-> key, value |-> value])
RemoveItem(ls, key) == SelectSeq(ls, LAMBDA x : x.key # key)

\* JSON.stringify of a value and JSON.parse of such a text; a text that was
\* not written by JSON.stringify does not parse
Stringify(value) == [json |-> value]
Parses(text) == "json" \in DOMAIN text
Parse(text) == text.json

\* Storage._getKey, set, has, remove; get is split into "is there a value
\* that parses" and the value (get returns null otherwise)
getKey(prefix, key) == prefix \o key
set(ls, prefix, key, value) == SetItem(ls, getKey(prefix, key), Stringify(value))
has(ls, prefix, key) == HasItem(ls, getKey(prefix, key))
remove(ls, prefix, key) == RemoveItem(ls, getKey(prefix, key))
gets(ls, prefix, key) ==
  has(ls, prefix, key) /\ Parses(GetItem(ls, getKey(prefix, key)))
get(ls, prefix, key) == Parse(GetItem(ls, getKey(prefix, key)))

\* key.startsWith(this.prefix + '-')
StartsWith(key, prefix) ==
  Len(key) > Len(prefix) /\ SubSeq(key, 1, Len(prefix)) = prefix

\* a clear that removes each key it finds at once, while it walks the
\* indexes of the storage
RECURSIVE ClearInLoop(_, _, _)
ClearInLoop(ls, prefix, i) ==
  IF i > Len(ls) THEN ls
  ELSE IF StartsWith(ls[i].key, prefix)
       THEN ClearInLoop(RemoveItem(ls, ls[i].key), prefix, i + 1)
       ELSE ClearInLoop(ls, prefix, i + 1)
clearWhileWalking(ls, prefix) == ClearInLoop(ls, prefix, 1)

\* Storage.clear: the first loop collects the keys with the prefix, the
\* second removes them
RECURSIVE KeysToRemove(_, _, _)
KeysToRemove(ls, prefix, i) ==
  IF i > Len(ls) THEN <<>>
  ELSE (IF StartsWith(ls[i].key, prefix) THEN <<ls[i].key>> ELSE <<>>)
         \o KeysToRemove(ls, prefix, i + 1)
RECURSIVE RemoveEach(_, _)
RemoveEach(ls, keys) ==
  IF keys = <<>> THEN ls ELSE RemoveEach(RemoveItem(ls, Head(keys)), Tail(keys))
clear(ls, prefix) == RemoveEach(ls, KeysToRemove(ls, prefix, 1))

\* Storage.keys: the keys with the prefix, without it
RECURSIVE keys(_, _, _)
keys(ls, prefix, i) ==
  IF i > Len(ls) THEN <<>>
  ELSE (IF StartsWith(ls[i].key, prefix)
        THEN <<SubSeq(ls[i].key, Len(prefix) + 1, Len(ls[i].key))>>
        ELSE <<>>)
         \o keys(ls, prefix, i + 1)

\* SettingsStorage.setSetting(key, value)
setSetting(ls, key, value) == set(ls, SettingsPrefix, key, value)

\* FriendsStorage.addFriend(peerId): this.get('list') || {}, the friend put
\* under its peer id, set
addFriend(ls, peerId) ==
  LET friends == IF gets(ls, FriendsPrefix, <<"list">>)
                 THEN get(ls, FriendsPrefix, <<"list">>)
                 ELSE {}
  IN set(ls, FriendsPrefix, <<"list">>, friends \cup {peerId})

\* ChatHistoryStorage: `history-${roomId}`, this.get(historyKey) || []
HistoryKey(roomId) == <<"history", roomId>>
Messages(ls, roomId) ==
  IF gets(ls, HistoryPrefix, HistoryKey(roomId))
  THEN get(ls, HistoryPrefix, HistoryKey(roomId))
  ELSE <<>>

\* addMessage: push {...message, stored_at}, splice the oldest off above
\* MAX_MESSAGES_PER_ROOM, set
addMessage(ls, roomId, message) ==
  LET pushed == Append(Messages(ls, roomId), [body |-> message.body, stored_at |-> "now"])
      kept == IF Len(pushed) > MAX_MESSAGES_PER_ROOM
              THEN SubSeq(pushed, Len(pushed) - MAX_MESSAGES_PER_ROOM + 1, Len(pushed))
              ELSE pushed
  IN set(ls, HistoryPrefix, HistoryKey(roomId), kept)

\* getHistory(roomId, limit = 100); args is the argument list of the call
getHistory(ls, args) ==
  LET limit == IF Len(args) < 2 THEN DefaultLimit ELSE args[2]
      messages == Messages(ls, args[1])
  IN IF limit # 0 /\ Len(messages) > limit
     THEN SubSeq(messages, Len(messages) - limit + 1, Len(messages))
     ELSE messages

clearHistory(ls, roomId) == remove(ls, HistoryPrefix, HistoryKey(roomId))

\* the messages of a room are numbered in the order they are added
NextMessage(ls, roomId) ==
  [body |-> IF Messages(ls, roomId) = <<>> THEN 1
            ELSE Messages(ls, roomId)[Len(Messages(ls, roomId))].body + 1]

\* the storage after n addMessage calls on a room, one after the other: the
\* first half of the calls is made (its storage is computed, and holds the
\* room's key) before the rest is
RECURSIVE AddMessages(_, _, _)
AddMessages(ls, roomId, n) ==
  IF n = 0 THEN ls
  ELSE IF n = 1 THEN addMessage(ls, roomId, NextMessage(ls, roomId))
  ELSE LET half == AddMessages(ls, roomId, n \div 2)
       IN IF Len(half) > 0
          THEN AddMessages(half, roomId, n - (n \div 2))
          ELSE half

TakeStoreOp == ops < MaxStoreOps /\ ops' = ops + 1

CallAddMessage(roomId) ==
  /\ TakeStoreOp
  /\ localStorage' = addMessage(localStorage, roomId, NextMessage(localStorage, roomId))
  /\ UNCHANGED <<streams, chan, sess, sessions, calls, events, history, last>>

CallGetHistory(args) ==
  /\ TakeStoreOp
  /\ last' = Result("getHistory", NoPeer, NoPeer, "ok", 0, 0,
                    <<args, getHistory(localStorage, args)>>)
  /\ UNCHANGED <<streams, chan, sess, sessions, calls, events, history, localStorage>>

CallClearHistory(roomId) ==
  /\ TakeStoreOp
  /\ localStorage' = clearHistory(localStorage, roomId)
  /\ UNCHANGED <<streams, chan, sess, sessions, calls, events, history, last>>

\* storage.set(key, value) through the application's Storage instance
CallSet(key) ==
  /\ TakeStoreOp
  /\ localStorage' = set(localStorage, StoragePrefix, key, "value")
  /\ UNCHANGED <<streams, chan, sess, sessions, calls, events, history, last>>

\* clear() on the instance with this prefix; the keys it collected are kept
\* with the call
CallClear(prefix) ==
  /\ TakeStoreOp
  /\ localStorage' = clear(localStorage, prefix)
  /\ last' = Result("clear", NoPeer, NoPeer, "ok", 0, 0,
                    <<prefix, KeysToRemove(localStorage, prefix, 1)>>)
  /\ UNCHANGED <<streams, chan, sess, sessions, calls, events, history>>

\* keys() on the instance with this prefix
CallKeys(prefix) ==
  /\ TakeStoreOp
  /\ last' = Result("keys", NoPeer, NoPeer, "ok", 0, 0, <<prefix, keys(localStorage, prefix, 1)>>)
  /\ UNCHANGED <<streams, chan, sess, sessions, calls, events, history, localStorage>>

\* settings.setSetting('nickname', value), friends.addFriend(peerId)
CallSetSetting(key) ==
  /\ TakeStoreOp
  /\ localStorage' = setSetting(localStorage, key, "value")
  /\ UNCHANGED <<streams, chan, sess, sessions, calls, events, history, last>>

CallAddFriend(peerId) ==
  /\ TakeStoreOp
  /\ localStorage' = addFriend(localStorage, peerId)
  /\ UNCHANGED <<streams, chan, sess, sessions, calls, events, history, last>>

\* other code of the page writes a key of its own
ForeignSetItem(key) ==
  /\ TakeStoreOp
  /\ localStorage' = SetItem(localStorage, key, [raw |-> "value"])
  /\ UNCHANGED <<streams, chan, sess, sessions, calls, events, history, last>>

StoreInit ==
  /\ streams = <<>>
  /\ chan = <<>>
  /\ sess = <<>>
  /\ sessions = [n \in Nodes |-> <<>>]
  /\ calls = <<>>
  /\ last = NoResult
  /\ events = [n \in Nodes |-> [p \in Nodes |-> <<>>]]
  /\ history = [n \in Nodes |-> <<>>]
  /\ ops = 0
  /\ \E n \in Prefill : localStorage = AddMessages(<<>>, "room1", n)

StoreNext ==
  \/ \E roomId \in StoreRooms : CallAddMessage(roomId)
  \/ \E roomId \in StoreRooms : CallGetHistory(<<roomId>>)
  \/ \E roomId \in StoreRooms, limit \in Limits : CallGetHistory(<<roomId, limit>>)
  \/ \E roomId \in StoreRooms : CallClearHistory(roomId)
  \/ \E key \in StorageKeys : CallSet(key)
  \/ \E prefix \in Prefixes : CallClear(prefix)
  \/ \E prefix \in Prefixes : CallKeys(prefix)
  \/ CallSetSetting(<<"nickname">>)
  \/ \E peerId \in Nodes : CallAddFriend(peerId)
  \/ \E key \in ForeignKeys : ForeignSetItem(key)

StoreSpec == StoreInit /\ [][StoreNext]_vars

\* ------------------------------------------------- KeyManager (key-manager.js)
\* Key pairs are numbered 1..MaxKeys; MaxKeyOps bounds the calls made.  A
\* text is what it encodes: nothing (undefined), the empty string, a text
\* that is no base64, or the base64 of some bytes; bytes are the protobuf
\* of a private key or something else.
MaxKeys == 3
MaxKeyOps == 3
KeyPairs == 1..MaxKeys
KEYS_KEY == <<"libp2p", "keys">>

Protobuf(k) == [fmt |-> "protobuf", key |-> k]
Garbage == [fmt |-> "garbage", key |-> 0]
Undefined == [enc |-> "undefined", fmt |-> "", key |-> 0]
EmptyString == [enc |-> "empty", fmt |-> "", key |-> 0]
NotBase64 == [enc |-> "text", fmt |-> "", key |-> 0]
\* uint8ArrayToString(bytes, 'base64') and uint8ArrayFromString(text, 'base64')
ToBase64(bytes) == [enc |-> "base64", fmt |-> bytes.fmt, key |-> bytes.key]
IsBase64(text) == text.enc = "base64"
FromBase64(text) == [fmt |-> text.fmt, key |-> text.key]
\* privateKeyFromProtobuf(bytes): throws unless the bytes are a key's
IsProtobuf(bytes) == bytes.fmt = "protobuf"
privateKeyFromProtobuf(bytes) == bytes.key
\* peerIdFromPrivateKey(privateKey).toString()
PeerIdString(privateKey) == <<"12D3KooW", privateKey>>
NoPeerId == <<>>

\* key data: null, or an object with its privateKey and peerId
Null == [isNull |-> TRUE, privateKey |-> Undefined, peerId |-> NoPeerId]
KeyData(privateKey, peerId) ==
  [isNull |-> FALSE, privateKey |-> privateKey, peerId |-> peerId]
\* !x for a text: undefined and '' are falsy
Falsy(text) == text.enc \in {"undefined", "empty"}

\* this.storage.get(this.KEYS_KEY), null without a record
HasKeys(ls) == gets(ls, StoragePrefix, KEYS_KEY)
StoredKeys(ls) == get(ls, StoragePrefix, KEYS_KEY)

\* generateKeys with the key pair createEd25519PeerId made: the record set
generateKeys(ls, k) ==
  set(ls, StoragePrefix, KEYS_KEY,
      [privateKey |-> ToBase64(Protobuf(k)), peerId |-> PeerIdString(k)])

\* exportKeys(): null without a record, else its privateKey and peerId
exportKeys(ls) ==
  IF ~HasKeys(ls) THEN Null
  ELSE KeyData(StoredKeys(ls).privateKey, StoredKeys(ls).peerId)

\* an importKeys that stores the key data before it validates them
importKeysStoresFirst(ls, keyData) ==
  IF keyData.isNull \/ Falsy(keyData.privateKey)
  THEN [threw |-> TRUE, ls |-> ls, peerId |-> NoPeerId]
  ELSE LET stored == set(ls, StoragePrefix, KEYS_KEY,
                         [privateKey |-> keyData.privateKey, peerId |-> keyData.peerId])
       IN IF ~IsBase64(keyData.privateKey)
             \/ ~IsProtobuf(FromBase64(keyData.privateKey))
          THEN [threw |-> TRUE, ls |-> stored, peerId |-> NoPeerId]
          ELSE [threw |-> FALSE, ls |-> stored,
                peerId |-> PeerIdString(privateKeyFromProtobuf(FromBase64(keyData.privateKey)))]

\* importKeys(keyData): 'Invalid key data' for null or a falsy privateKey;
\* the key is rebuilt from its base64 protobuf (either step throws for a
\* text that is no key), the peer id derived from it, and only then the
\* record is set.  [threw, ls, peerId]: the outcome, the storage after the
\* call and the peer id returned.
importKeys(ls, keyData) ==
  IF keyData.isNull \/ Falsy(keyData.privateKey)
  THEN [threw |-> TRUE, ls |-> ls, peerId |-> NoPeerId]
  ELSE IF ~IsBase64(keyData.privateKey)
          \/ ~IsProtobuf(FromBase64(keyData.privateKey))
  THEN [threw |-> TRUE, ls |-> ls, peerId |-> NoPeerId]
  ELSE LET privateKey == privateKeyFromProtobuf(FromBase64(keyData.privateKey))
           peerId == PeerIdString(privateKey)
       IN [threw |-> FALSE,
           ls |-> set(ls, StoragePrefix, KEYS_KEY,
                      [privateKey |-> keyData.privateKey, peerId |-> peerId]),
           peerId |-> peerId]

\* clearKeys()
clearKeys(ls) == remove(ls, StoragePrefix, KEYS_KEY)

\* loadKeys(): the peer id rebuilt from the stored private key, null without
\* a record or when the key cannot be rebuilt
loadKeys(ls) ==
  IF ~HasKeys(ls) THEN NoPeerId
  ELSE IF ~IsBase64(StoredKeys(ls).privateKey)
          \/ ~IsProtobuf(FromBase64(StoredKeys(ls).privateKey))
  THEN NoPeerId
  ELSE PeerIdString(privateKeyFromProtobuf(FromBase64(StoredKeys(ls).privateKey)))

\* getPeerId(): the peer id of the record
getPeerId(ls) == IF HasKeys(ls) THEN StoredKeys(ls).peerId ELSE NoPeerId

\* The key data importKeys is called with: null, {}, an empty or undecodable
\* privateKey, the base64 of bytes that are no key, a backup of each key
\* pair as exportKeys returns it, and backups whose peerId was edited
Backup(k) == KeyData(ToBase64(Protobuf(k)), PeerIdString(k))
KeyDatas ==
  {Null, KeyData(Undefined, NoPeerId), KeyData(EmptyString, PeerIdString(1)),
   KeyData(NotBase64, PeerIdString(1)), KeyData(ToBase64(Garbage), PeerIdString(1))}
    \cup {Backup(k) : k \in KeyPairs}
    \cup {KeyData(ToBase64(Protobuf(k)), PeerIdString(j)) : k \in KeyPairs, j \in KeyPairs}

TakeKeyOp == ops < MaxKeyOps /\ ops' = ops + 1

CallGenerateKeys(k) ==
  /\ TakeKeyOp
  /\ localStorage' = generateKeys(localStorage, k)
  /\ last' = Result("generateKeys", NoPeer, NoPeer, "ok", 0, 0, <<PeerIdString(k)>>)
  /\ UNCHANGED <<streams, chan, sess, sessions, calls, events, history>>

CallExportKeys ==
  /\ TakeKeyOp
  /\ last' = Result("exportKeys", NoPeer, NoPeer, "ok", 0, 0, <<exportKeys(localStorage)>>)
  /\ UNCHANGED <<streams, chan, sess, sessions, calls, events, history, localStorage>>

\* importKeys with any key data, or with what the exportKeys before returned
CallImportKeys(keyData) ==
  /\ TakeKeyOp
  /\ LET r == importKeys(localStorage, keyData)
     IN /\ localStorage' = r.ls
        /\ last' = Result("importKeys", NoPeer, NoPeer,
                          IF r.threw THEN "error" ELSE "ok", 0, 0, <<keyData, r.peerId>>)
  /\ UNCHANGED <<streams, chan, sess, sessions, calls, events, history>>

CallClearKeys ==
  /\ TakeKeyOp
  /\ localStorage' = clearKeys(localStorage)
  /\ last' = Result("clearKeys", NoPeer, NoPeer, "ok", 0, 0, <<>>)
  /\ UNCHANGED <<streams, chan, sess, sessions, calls, events, history>>

CallLoadKeys ==
  /\ TakeKeyOp
  /\ last' = Result("loadKeys", NoPeer, NoPeer, "ok", 0, 0, <<loadKeys(localStorage)>>)
  /\ UNCHANGED <<streams, chan, sess, sessions, calls, events, history, localStorage>>

CallGetPeerId ==
  /\ TakeKeyOp
  /\ last' = Result("getPeerId", NoPeer, NoPeer, "ok", 0, 0, <<getPeerId(localStorage)>>)
  /\ UNCHANGED <<streams, chan, sess, sessions, calls, events, history, localStorage>>

KeyNext ==
  \/ \E k \in KeyPairs : CallGenerateKeys(k)
  \/ CallExportKeys
  \/ \E keyData \in KeyDatas : CallImportKeys(keyData)
  \/ last.op = "exportKeys" /\ CallImportKeys(last.sent[1])
  \/ CallClearKeys
  \/ CallLoadKeys
  \/ CallGetPeerId

KeySpec == Init /\ [][KeyNext]_vars

\* ============================================================== properties
\* the payloads of the frames end e has written and its peer has not read
Written(e) == [i \in 1..Len(chan[e].wire) |-> chan[e].wire[i].data]
\* session e is the value of an entry of node n's registry
Registered(n, e) == \E i \in 1..Len(sessions[n]) : sessions[n][i].sid = e
\* the events of one name that node n emitted about session e
Emitted(e, name) ==
  LET evs == events[sess[e].owner][sess[e].peerId]
  IN Cardinality({i \in 1..Len(evs) : evs[i].name = name /\ evs[i].sid = e})
\* the Hello payloads session e has pushed: written to the stream or queued
HelloCount(e) ==
  LET out == Written(e) \o sess[e].outbound
  IN Cardinality({i \in 1..Len(out) : out[i].type = "hello"})
Inbound(e) == e % 2 = 0

\* C1: at every moment a node holds at most one live session per remote
\* peer, however inbound streams and openStream calls for that peer interleave
OneLiveSessionPerPeer ==
  \A e1 \in Made, e2 \in Made :
    (/\ sess[e1].owner = sess[e2].owner
     /\ sess[e1].peerId = sess[e2].peerId
     /\ sess[e1].isActive
     /\ sess[e2].isActive) => e1 = e2

\* C2: the protocol handler invoked with a stream from a peer that has a
\* registered session closes that stream and touches nothing else: no session
\* is made on it, the registered session, the registry and the events stay
DuplicateInboundClosed ==
  [][\A k \in 1..Len(streams) :
       LET e == ListenerEnd(k)
           n == streams[k].listener
       IN (/\ n \in Local
           /\ chan[e].st = "pending"
           /\ chan'[e].st # "pending"
           /\ MapHas(sessions[n], streams[k].dialer))
          => (/\ chan'[e].st = "closed"
              /\ ~sess'[e].made
              /\ UNCHANGED <<sess, sessions, events, calls, history>>)]_vars

DuplicateInboundRejected ==
  \E k \in 1..Len(streams) :
    LET n == streams[k].listener
        p == streams[k].dialer
    IN /\ n \in Local
       /\ chan[ListenerEnd(k)].st = "closed"
       /\ ~sess[ListenerEnd(k)].made
       /\ MapHas(sessions[n], p)
       /\ sess[MapGet(sessions[n], p)].isActive

\* C3: a session emits exactly one disconnected notification, when it is
\* closed, however often and from wherever close is called; a closed session
\* has its outbound queue ended and is not in the registry
ClosedExactlyOnce ==
  \A e \in Made :
    /\ Emitted(e, "chat:disconnected") = (IF sess[e].isActive THEN 0 ELSE 1)
    /\ ~sess[e].isActive => (sess[e].ended /\ ~Registered(sess[e].owner, e))

\* both pipes of the session have failed, each calling close()
ClosedByBothPipes ==
  \E e \in Made :
    /\ ~sess[e].isActive
    /\ sess[e].inPump = "done"
    /\ sess[e].outPump = "done"
    /\ ~chan[e].fin
    /\ Emitted(e, "chat:disconnected") = 1

\* C4: openStream for a peer with a registered session returns that session
\* and does nothing else: no dial, no session, no Hello, no event
OpenStreamReuses ==
  [][\A n \in Local, p \in Nodes :
       (OpenStreamBegin(n, p) /\ MapHas(sessions[n], p))
       => (/\ last' = Result("openStream", n, p, "ok", MapGet(sessions[n], p), 0, <<>>)
           /\ UNCHANGED <<streams, chan, sess, sessions, calls, events, history>>)]_vars

OpenStreamReused ==
  /\ last.op = "openStream"
  /\ last.result = "ok"
  /\ last.dials = 0
  /\ MapHas(sessions[last.node], last.peer)
  /\ MapGet(sessions[last.node], last.peer) = last.sid

\* C5 (as the code has it): an openStream whose dial fails throws to its
\* caller and leaves the registry, the sessions and the events as they were,
\* having made no session itself; an openStream for a peer without
\* registered session starts a dial of its own
OpenStreamFailureClean ==
  [][/\ \A c \in 1..Len(calls) :
          (calls[c].pc \in {"dial", "retry"} /\ calls' = Remove(calls, c))
          => (/\ last'.result = "error"
              /\ last'.op = calls[c].op
              /\ last'.peer = calls[c].peer
              /\ last'.sid = 0
              /\ calls[c].sid = 0
              /\ UNCHANGED <<streams, chan, sess, sessions, events, history>>)
     /\ \A n \in Local, p \in Nodes :
          (OpenStreamBegin(n, p) /\ ~MapHas(sessions[n], p))
          => calls' = Append(calls, Call("openStream", n, p, "dial", 0, "", 0, NoMsg))]_vars

DialsAgainAfterFailure ==
  /\ last.op = "openStream"
  /\ last.result = "error"
  /\ ~MapHas(sessions[last.node], last.peer)
  /\ events[last.node][last.peer] = <<>>
  /\ \E c \in 1..Len(calls) :
       /\ calls[c].op = "openStream"
       /\ calls[c].peer = last.peer
       /\ calls[c].pc = "dial"
       /\ calls[c].dials = 0

\* C5 (as stated): when an openStream for peer P fails, P has no entry in
\* the registry
OpenStreamFailureUnregistered ==
  [][\A c \in 1..Len(calls) :
       (calls[c].pc \in {"dial", "retry"} /\ calls' = Remove(calls, c))
       => ~MapHas(sessions'[calls[c].node], calls[c].peer)]_vars

\* C6: a broadcast pushes its message once onto every session that is
\* active when it is called, also when the send to one of them fails, and
\* returns without raising
BroadcastReachesEveryActive ==
  [][\A n \in Local, r \in Rooms, failAt \in 0..MaxStreams :
       Broadcast(n, r, failAt)
       => /\ \A e \in Made :
               (sess[e].owner = n /\ sess[e].isActive)
               => sess'[e].outbound =
                    Append(sess[e].outbound, ChatMessage(n, r, sess[e].seq, "yo"))
          /\ last'.result = "ok"]_vars

\* C6, for the sessions of the registry: a broadcast pushes its message once
\* onto every session that is registered and active when it is called and
\* onto no other session, also when the send to one of them fails (its
\* message cannot be stored), and returns without raising, having collected
\* the sends that succeeded
BroadcastSendsToEach ==
  [][\A n \in Local, r \in Rooms, failAt \in 0..MaxStreams :
       Broadcast(n, r, failAt)
       => LET Targets == {e \in Made : Registered(n, e) /\ sess[e].isActive}
              Failed == {e \in Targets : failAt \in 1..Len(sessions[n])
                                         /\ sessions[n][failAt].sid = e}
          IN /\ \A e \in Made :
                  sess'[e].outbound =
                    IF e \in Targets
                    THEN Append(sess[e].outbound, ChatMessage(n, r, sess[e].seq, "yo"))
                    ELSE sess[e].outbound
             /\ last'.op = "broadcast"
             /\ last'.result = "ok"
             /\ {last'.sent[i].sid : i \in 1..Len(last'.sent)} = Targets \ Failed
             /\ Len(last'.sent) = Cardinality(Targets \ Failed)]_vars

\* a broadcast to two sessions, the send to the first of which failed: the
\* second has the message queued all the same
BroadcastPastFailure ==
  /\ last.op = "broadcast"
  /\ Len(last.sent) = 1
  /\ \E e \in Made :
       /\ e # last.sent[1].sid
       /\ sess[e].isActive
       /\ sess[e].outbound # <<>>
       /\ sess[e].outbound[Len(sess[e].outbound)] = last.sent[1].msg
       /\ Len(sessions[last.node]) = 2
       /\ sessions[last.node][1].sid = e

\* C7: send on a session that is not active throws and changes nothing;
\* send on an active session appends the payload to the outbound queue and
\* returns before anything is written to the stream
SendChecksActive ==
  [][\A c \in 1..Len(calls), stored \in BOOLEAN :
       (Connected(c, stored) /\ calls[c].op \in {"sendMessage", "raw"})
       => LET e == calls[c].sid
              msg == IF calls[c].op = "raw" THEN calls[c].msg
                     ELSE ChatMessage(calls[c].node, calls[c].room, sess[e].seq, "hi")
          IN IF ~sess[e].isActive
             THEN /\ last'.result = "error"
                  /\ UNCHANGED <<sess, sessions, chan, history>>
             ELSE /\ sess'[e].outbound = Append(sess[e].outbound, msg)
                  /\ sess'[e].seq = sess[e].seq + 1
                  /\ sess'[e].isActive
                  /\ UNCHANGED chan]_vars

SendOnClosedThrew ==
  /\ last.op \in {"sendMessage", "raw"}
  /\ last.result = "error"
  /\ last.sid # 0
  /\ ~sess[last.sid].isActive
  /\ sess[last.sid].seq = 1

\* C8: when a pipe of a session stops, that session is closed, unregistered
\* and has emitted its one disconnected notification; the sessions, registry
\* entries and events of the other peers are as before
StreamErrorClosesOnlyThat ==
  [][\A e \in Made :
       (\/ sess[e].inPump = "running" /\ sess'[e].inPump = "done"
        \/ sess[e].outPump = "running" /\ sess'[e].outPump = "done")
       => (/\ ~sess'[e].isActive
           /\ Emitted(e, "chat:disconnected")' = 1
           /\ ~Registered(sess[e].owner, e)'
           /\ \A e2 \in Made : sess[e2].peerId # sess[e].peerId => sess'[e2] = sess[e2]
           /\ \A p \in Nodes \ {sess[e].peerId} :
                /\ MapHas(sessions[sess[e].owner], p) =>
                     /\ MapHas(sessions'[sess[e].owner], p)
                     /\ MapGet(sessions'[sess[e].owner], p) = MapGet(sessions[sess[e].owner], p)
                /\ events'[sess[e].owner][p] = events[sess[e].owner][p])]_vars

OtherPeerSurvivesError ==
  \E e \in Made, e2 \in Made :
    /\ sess[e].owner = sess[e2].owner
    /\ sess[e].peerId # sess[e2].peerId
    /\ ~sess[e].isActive
    /\ \/ sess[e].inPump = "done" /\ ~chan[Other(e)].fin
       \/ sess[e].outPump = "done" /\ ~chan[e].fin
    /\ sess[e2].isActive
    /\ Registered(sess[e2].owner, e2)

HelloSent(e) == sess[e].made /\ sess[e].seq >= 1
HelloReceived(e) == sess[e].made /\ Emitted(e, "peer:handshake") >= 1
HandshakeConfirmed(e) == HelloSent(e) /\ HelloReceived(e)
BothConfirmed(k) ==
  /\ k <= Len(streams)
  /\ HandshakeConfirmed(DialerEnd(k))
  /\ HandshakeConfirmed(ListenerEnd(k))
\* stream k did not stay open: refused as a duplicate, or a session on it closed
Broken(k) ==
  /\ k <= Len(streams)
  /\ \/ chan[ListenerEnd(k)].st = "closed"
     \/ \E e \in {DialerEnd(k), ListenerEnd(k)} : sess[e].made /\ ~sess[e].isActive

\* C10: once a stream joins two peers then, with the handler and the pipes
\* scheduled fairly, both of its ends come to have sent their Hello and
\* received the peer's, whoever dialed, unless the stream does not stay
\* open; and no session handles the peer's Hello before it has sent its own,
\* so that none is confirmed with only one of the two
HandshakeCompletes ==
  /\ \A k \in 1..MaxStreams :
       (k <= Len(streams)) ~> (BothConfirmed(k) \/ Broken(k))
  /\ [](\A e \in Made : HelloReceived(e) => HelloSent(e))

\* a stream that stayed open, both ends confirmed
HandshakeDone ==
  \E k \in 1..Len(streams) : BothConfirmed(k) /\ ~Broken(k)

\* C11: a Hello received on a session that has sent its Hello and received
\* the peer's already is ignored: it is not reported as a handshake again,
\* so that no session has more than one handshake reported
HandshakeReportedOnce ==
  \A e \in Made : Emitted(e, "peer:handshake") <= 1

\* what the handlers of session e were handed, in order, and what session e
\* has pushed and its peer has not read yet, each payload as <<type, seq>>
Tag(m) == <<m.type, m.seq>>
Dispatched(e) ==
  LET evs == SelectSeq(events[sess[e].owner][sess[e].peerId],
                       LAMBDA x : x.sid = e /\ x.name \in {"peer:handshake", "message:received"})
  IN [i \in 1..Len(evs) |->
        IF evs[i].name = "peer:handshake" THEN <<"hello", 0>> ELSE Tag(evs[i].msg)]
InFlight(e) ==
  LET q == Written(e) \o sess[e].outbound
  IN [i \in 1..Len(q) |-> Tag(q[i])]
\* the k-th payload a session pushes when the application sends chat messages
Pushed(k) == IF k = 1 THEN <<"hello", 0>> ELSE <<"m.room.message", k - 1>>

\* C12: the payloads a session has pushed are, in the order of their send,
\* those its peer's handlers were handed followed by those still queued or
\* on the stream: none lost, none twice, none out of order
WireFifo ==
  \A e \in Made :
    LET all == (IF sess[Other(e)].made THEN Dispatched(Other(e)) ELSE <<>>) \o InFlight(e)
    IN /\ Len(all) = sess[e].seq
       /\ \A k \in 1..Len(all) : all[k] = Pushed(k)

\* a session was handed the Hello and two chat messages of its peer
ThreeDispatched ==
  \E e \in Made : Len(Dispatched(e)) = 3 /\ sess[e].isActive /\ sess[Other(e)].isActive

ClosedSession(e) == e <= Len(sess) /\ sess[e].made /\ ~sess[e].isActive
PumpsDone(e) == e <= Len(sess) /\ sess[e].inPump = "done" /\ sess[e].outPump = "done"

\* C13: once a session is closed both of its pipes come to an end, whatever
\* the remote peer does or does not do
PumpsStopAfterClose ==
  \A e \in 1..(2 * MaxStreams) : ClosedSession(e) ~> PumpsDone(e)

\* C14: closeAllSessions closes every session that is registered when it is
\* called, each once: afterwards the registry is empty, each of them is
\* inactive and has emitted its one disconnected notification; the sessions
\* that were not registered are as before
CloseAllClosesEach ==
  [][\A n \in Local :
       CloseAllSessions(n)
       => /\ sessions'[n] = <<>>
          /\ \A e \in Made :
               IF Registered(n, e)
               THEN /\ ~sess'[e].isActive
                    /\ sess'[e].ended
                    /\ Emitted(e, "chat:disconnected")' = 1
               ELSE sess'[e] = sess[e]]_vars

\* two sessions closed by one call, their pipes still running
TwoClosedAtOnce ==
  /\ ops = 3
  /\ sessions["A"] = <<>>
  /\ \E e1 \in Made, e2 \in Made :
       /\ sess[e1].peerId # sess[e2].peerId
       /\ \A e \in {e1, e2} :
            /\ sess[e].owner = "A"
            /\ ~sess[e].isActive
            /\ sess[e].inPump = "running"
            /\ ~chan[Other(e)].fin
            /\ Emitted(e, "chat:disconnected") = 1

\* What a session of a local node has sent, in send order: the payloads the
\* outbound pipe already wrote, then those still queued
SentBy(e) == Written(e) \o sess[e].outbound
ChatSent(e) == SelectSeq(SentBy(e), LAMBDA m : m.type = "m.room.message")

\* C15: the seq values of the chat messages sent through one session are
\* strictly increasing in send order
SeqStrictlyIncreasing ==
  \A e \in Made :
    sess[e].owner \in Local
    => \A i \in 1..Len(ChatSent(e)), j \in 1..Len(ChatSent(e)) :
         i < j => ChatSent(e)[i].seq < ChatSent(e)[j].seq

TwoChatsSent ==
  \E e \in Made : sess[e].owner \in Local /\ Len(ChatSent(e)) >= 2

\* C16: the counter of a session counts its chat messages and nothing else:
\* it equals the number of chat messages sent, and the n-th of them carries
\* the start value plus n-1
SeqCountsChatMessages ==
  \A e \in Made :
    sess[e].owner \in Local
    => /\ sess[e].seq = NewSession("A", "B").seq + Len(ChatSent(e))
       /\ \A i \in 1..Len(ChatSent(e)) :
            ChatSent(e)[i].seq = NewSession("A", "B").seq + i - 1

\* the message:sent events node n has emitted
SentEvents(n) ==
  {<<p, i>> \in Nodes \X (1..(2 * MaxOps)) :
     i <= Len(events[n][p]) /\ events[n][p][i].name = "message:sent"}

\* the step in which a sendMessage(p, ., roomId) call of node n returns or
\* rejects: at once when p has a session, else after its openStream
SendMessageReturns(n, p, roomId) ==
  \/ \E stored \in BOOLEAN :
       /\ MapHas(sessions[n], p)
       /\ SendMessageBegin(n, p, roomId, stored)
  \/ \E c \in 1..Len(calls) :
       /\ calls[c].op = "sendMessage"
       /\ calls[c].node = n
       /\ calls[c].peer = p
       /\ calls[c].room = roomId
       /\ Len(calls') < Len(calls)
       /\ \/ \E stored \in BOOLEAN : Connected(c, stored)
          \/ \E hadConn \in BOOLEAN : DialFail(c, hadConn)
          \/ \E redial \in BOOLEAN : RetryFail(c, redial)

\* C17: a sendMessage that succeeds has pushed one chat message on the
\* session of the peer, appended that message once to the history of the
\* room, emitted one message:sent with it and returns it; one that fails
\* rejects, and has neither appended to the history nor emitted message:sent
SendMessageAllOrNothing ==
  [][\A n \in Local, p \in Nodes, r \in Rooms :
       SendMessageReturns(n, p, r)
       => /\ last'.op = "sendMessage"
          /\ IF last'.result = "ok"
             THEN /\ Len(last'.sent) = 1
                  /\ LET m == last'.sent[1].msg
                         e == last'.sid
                     IN /\ m.type = "m.room.message"
                        /\ m.room_id = r
                        /\ sess[e].peerId = p
                        /\ sess'[e].outbound = Append(sess[e].outbound, m)
                        /\ history'[n] = Append(history[n], [room |-> r, msg |-> m])
                        /\ events'[n][p] # <<>>
                        /\ events'[n][p][Len(events'[n][p])].name = "message:sent"
                        /\ events'[n][p][Len(events'[n][p])].msg = m
                        /\ Cardinality(SentEvents(n)') = Cardinality(SentEvents(n)) + 1
             ELSE /\ last'.result = "error"
                  /\ history' = history
                  /\ SentEvents(n)' = SentEvents(n)]_vars

\* a sendMessage that opened its session has returned its message
SendMessageStored ==
  /\ last.op = "sendMessage"
  /\ last.result = "ok"
  /\ last.dials = 1
  /\ history["A"] = <<[room |-> "public", msg |-> last.sent[1].msg]>>
  /\ Cardinality(SentEvents("A")) = 1

\* C18: a frame whose type has no handler is logged and dropped: it raises
\* nothing, closes nothing and changes nothing else; the session stays
\* registered and active and its inbound pipe goes on reading
UnknownTypeDropped ==
  [][\A e \in Ends, t \in RawTypes, q \in Nodes :
       PeerFrame(e, RawMessage(t, q))
       => /\ sess' = [sess EXCEPT ![e].logged = @ \cup {"Unknown message type"}]
          /\ sess'[e].inPump = "running"
          /\ UNCHANGED <<sessions, events, history, last, chan, calls>>]_vars

\* a session that dropped a frame of unknown type and took a Hello
UnknownDroppedSessionLive ==
  \E e \in Made :
    /\ sess[e].logged = {"Unknown message type"}
    /\ sess[e].isActive
    /\ Registered(sess[e].owner, e)
    /\ sess[e].inPump = "running"
    /\ Emitted(e, "peer:handshake") = 1

\* C19: a frame whose body does not parse is logged and dropped: no event,
\* no history entry; the session stays open and registered and its inbound
\* pipe goes on reading
UnparsableFrameDropped ==
  [][\A e \in Ends :
       PeerFrame(e, NotJson)
       => /\ sess' = [sess EXCEPT ![e].logged = @ \cup {"Message parse error"}]
          /\ sess'[e].inPump = "running"
          /\ UNCHANGED <<sessions, events, history, last, chan, calls>>]_vars

\* a session that dropped an unparsable frame and delivered a chat message
UnparsableDroppedSessionLive ==
  \E e \in Made :
    /\ sess[e].logged = {"Message parse error"}
    /\ sess[e].isActive
    /\ Registered(sess[e].owner, e)
    /\ sess[e].inPump = "running"
    /\ Emitted(e, "message:received") = 1
    /\ Len(history[sess[e].owner]) = 1

\* the event a handler emits for a message of the given type
EventName(type) ==
  CASE type = "hello" -> "peer:handshake"
    [] type = "m.typing" -> "peer:typing"
    [] type = "m.nickname" -> "peer:nickname"
    [] OTHER -> "message:received"

\* C20: whatever the sender field of a received message (a frame the decoder
\* accepts) says, the peer named in the handshake, typing and nickname events
\* is the remote peer of the
\* stream the frame came on, and a chat message goes to the history and to
\* message:received with its sender field as received
SenderFieldNotTrusted ==
  [][\A e \in Ends, q \in Nodes :
       \A msg \in PeerFrames(q) \ {RawMessage("m.unknown.future", q), NotJson} :
         (LpDecodes(LpEncode(msg)) /\ PeerFrame(e, msg))
         => LET n == EndOwner(e)
                p == EndOwner(Other(e))
            IN /\ \A r \in Nodes \ {p} : events'[n][r] = events[n][r]
               /\ Len(events'[n][p]) = Len(events[n][p]) + 1
               /\ LET ev == events'[n][p][Len(events'[n][p])]
                  IN /\ ev.name = EventName(msg.type)
                     /\ ev.sid = e
                     /\ IF msg.type = "m.room.message"
                        THEN /\ ev.msg = msg
                             /\ history'[n] = Append(history[n], [room |-> msg.room_id, msg |-> msg])
                        ELSE /\ ev.peerId = p
                             /\ history' = history]_vars

\* a peer's typing notice and chat message, both with another peer's id in
\* their sender field, have been handled
SpoofedSenderHandled ==
  \E e \in Made :
    LET n == sess[e].owner
        p == EndOwner(Other(e))
        evs == events[n][p]
    IN /\ p = "B"
       /\ \E i \in 1..Len(evs) :
            evs[i].sid = e /\ evs[i].name = "peer:typing" /\ evs[i].peerId = "B"
       /\ \E i \in 1..Len(evs) :
            evs[i].sid = e /\ evs[i].name = "message:received" /\ evs[i].msg.sender = "C"
       /\ \E i \in 1..Len(history[n]) : history[n][i].msg.sender = "C"

\* C21: every chat stream a node dialed, or accepted and handed to its
\* protocol handler, is the stream of a session of that node, or was closed
\* at once as a duplicate
EveryStreamOwned ==
  \A e \in Ends :
    (EndOwner(e) \in Local /\ chan[e].st # "pending")
    => \/ sess[e].made /\ sess[e].owner = EndOwner(e)
       \/ Inbound(e) /\ chan[e].st = "closed"

\* C22: one openStream or sendMessage call dials the chat protocol at most
\* once, whether it is still running or has returned
AtMostOneDial ==
  /\ \A c \in 1..Len(calls) : calls[c].dials <= 1
  /\ last.dials <= 1

\* no Hello of the peer has been handled on session e
NoHelloYet(e) == sess[e].made /\ Emitted(e, "peer:handshake") = 0

\* C23: neither direction waits for the handshake: on an active session that
\* has not seen the Hello of its peer, a sendMessage pushes its message and
\* succeeds, and a chat message that arrives goes to the history and to
\* message:received
NotGatedOnHandshake ==
  [][/\ \A n \in Local, p \in Nodes, r \in Rooms :
          (/\ MapHas(sessions[n], p)
           /\ sess[MapGet(sessions[n], p)].isActive
           /\ NoHelloYet(MapGet(sessions[n], p))
           /\ SendMessageBegin(n, p, r, TRUE))
          => LET e == MapGet(sessions[n], p)
             IN /\ last'.result = "ok"
                /\ Len(sess'[e].outbound) = Len(sess[e].outbound) + 1
                /\ sess'[e].outbound[Len(sess'[e].outbound)].type = "m.room.message"
     /\ \A e \in Ends, q \in Nodes :
          (NoHelloYet(e) /\ PeerFrame(e, ChatMessage(q, "public", 0, "hey")))
          => /\ history'[EndOwner(e)] =
                  Append(history[EndOwner(e)],
                         [room |-> "public", msg |-> ChatMessage(q, "public", 0, "hey")])
             /\ Emitted(e, "message:received")' = Emitted(e, "message:received") + 1]_vars

\* a session that has sent and has received a chat message, its peer's Hello
\* still to come
ChattedBeforeHello ==
  \E e \in Made :
    /\ sess[e].owner \in Local
    /\ sess[e].isActive
    /\ NoHelloYet(e)
    /\ Len(ChatSent(e)) = 1
    /\ Emitted(e, "message:received") = 1
    /\ Emitted(e, "message:sent") = 1

\* C24: closeSession(p) closes the session registered for p and removes its
\* entry, with one disconnected notification for p; every other session and
\* registry entry, and the queue and seq of the closed one, stay as they are.
\* For a peer without a registered session, a first or a repeated
\* closeSession changes and emits nothing
CloseSessionOnlyThat ==
  [][\A n \in Local, p \in Nodes :
       CloseSession(n, p)
       => IF MapHas(sessions[n], p)
          THEN LET e == MapGet(sessions[n], p)
               IN /\ sess' = [sess EXCEPT ![e].isActive = FALSE, ![e].ended = TRUE]
                  /\ sessions' = [sessions EXCEPT ![n] = MapDelete(@, p)]
                  /\ \A q \in Nodes \ {p} : MapHas(sessions'[n], q) = MapHas(sessions[n], q)
                  /\ events' = [events EXCEPT ![n][p] =
                                  Append(@, Ev("chat:disconnected", p, e, NoMsg))]
                  /\ UNCHANGED <<history, chan>>
          ELSE UNCHANGED <<sess, sessions, events, history, chan, calls, last>>]_vars

\* closeSession was called for B: B's session is closed with one
\* notification, its pipes not yet stopped; C's session is registered and
\* active
ClosedOneOtherLive ==
  /\ ops = 3
  /\ \E e1 \in Made, e2 \in Made :
       /\ sess[e1].owner = "A" /\ sess[e1].peerId = "B"
       /\ ~sess[e1].isActive
       /\ sess[e1].inPump = "running"
       /\ sess[e1].outPump = "running"
       /\ Emitted(e1, "chat:disconnected") = 1
       /\ sess[e2].owner = "A" /\ sess[e2].peerId = "C"
       /\ sess[e2].isActive
       /\ Registered("A", e2)
       /\ Inbound(e1) /\ Inbound(e2)

\* C25: a frame longer than the advertised frame size is never delivered:
\* reading it ends the inbound pipe, and nothing of it reaches the history or
\* the events
OversizeFrameRejected ==
  [][\A e \in Ends, q \in Nodes :
       \A msg \in PeerFrames(q) :
         (Size(msg) > MaxFrame /\ PeerFrame(e, msg))
         => /\ sess'[e].inPump = "done"
            /\ history' = history
            /\ Emitted(e, "message:received")' = Emitted(e, "message:received")]_vars

\* C26: the room id of two peers does not depend on the order in which they
\* are given, is the same at every call and is 16 hex digits long
RoomIdSymmetric ==
  last.op = "generateRoomId"
  => LET peerId1 == last.sent[1]
         peerId2 == last.sent[2]
         roomId == last.sent[3]
     IN /\ roomId = generateRoomId(peerId2, peerId1)
        /\ roomId = generateRoomId(peerId1, peerId2)
        /\ Len(roomId) = 16
        /\ \A i \in 1..Len(roomId) : roomId[i] \in 0..15

\* a room id was made for two different peers given in descending order
RoomIdOfSwappedPair ==
  /\ last.op = "generateRoomId"
  /\ StringLess(last.sent[2], last.sent[1])
  /\ Len(last.sent[1]) # Len(last.sent[2])

\* the chat messages among payloads, those sendMessage has sent through
\* session e and those the handler of session e has been handed, in order
ChatIn(q) == SelectSeq(q, LAMBDA m : "type" \in DOMAIN m /\ m.type = "m.room.message")
EventMsgs(e, name) ==
  LET evs == SelectSeq(events[sess[e].owner][sess[e].peerId],
                       LAMBDA x : x.sid = e /\ x.name = name)
  IN [i \in 1..Len(evs) |-> evs[i].msg]

\* C27: every frame on a stream is one pushed payload behind its own length,
\* and the decoder at the other end yields that payload: the chat messages
\* sent through a session are those its peer was handed, then those still
\* on the stream or queued, each equal to what was sent
FramingRoundTrips ==
  \A e \in Made :
    /\ \A i \in 1..Len(chan[e].wire) :
         /\ "type" \in DOMAIN chan[e].wire[i].data
         /\ chan[e].wire[i].len = Size(chan[e].wire[i].data)
         /\ chan[e].wire[i].len <= MaxFrame
    /\ sess[Other(e)].made
       => EventMsgs(e, "message:sent")
            = EventMsgs(Other(e), "message:received") \o ChatIn(Written(e) \o sess[e].outbound)

\* two chat messages were sent and both have come out of the peer's decoder
TwoFramesRoundTripped ==
  \E e \in Made :
    /\ sess[Other(e)].made
    /\ Len(EventMsgs(e, "message:sent")) = 2
    /\ EventMsgs(Other(e), "message:received") = EventMsgs(e, "message:sent")

\* the number of messages added to a room (they are numbered as they are
\* added), and the numbers of a list of stored messages
Added(ls, roomId) ==
  IF Messages(ls, roomId) = <<>> THEN 0
  ELSE Messages(ls, roomId)[Len(Messages(ls, roomId))].body
Bodies(messages) == [i \in 1..Len(messages) |-> messages[i].body]
Smaller(a, b) == IF a < b THEN a ELSE b
\* the numbers of the most recent k of n messages, oldest first
MostRecent(n, k) == [i \in 1..k |-> n - k + i]

\* C28: getHistory(room) returns the most recent min(n, 1000) of the n
\* messages added to the room, in the order they were added
GetHistoryReturnsStored ==
  [][\A roomId \in StoreRooms :
       CallGetHistory(<<roomId>>)
       => LET n == Added(localStorage, roomId)
          IN Bodies(last'.sent[2]) = MostRecent(n, Smaller(n, MAX_MESSAGES_PER_ROOM))]_vars

\* C29: getHistory(room, k) returns the last min(k, stored) messages of the
\* room in the order they were added and leaves the storage as it was;
\* clearHistory(room) empties the room and leaves every other room's history
\* as it was
GetHistoryLimitAndClearHistory ==
  [][/\ \A roomId \in StoreRooms, k \in Limits :
          CallGetHistory(<<roomId, k>>)
          => LET messages == Messages(localStorage, roomId)
                 n == Smaller(k, Len(messages))
             IN /\ last'.sent[2] = SubSeq(messages, Len(messages) - n + 1, Len(messages))
                /\ localStorage' = localStorage
     /\ \A roomId \in StoreRooms :
          CallClearHistory(roomId)
          => /\ Messages(localStorage', roomId) = <<>>
             /\ \A other \in StoreRooms \ {roomId} :
                  Messages(localStorage', other) = Messages(localStorage, other)]_vars

\* C30: clear() on a Storage instance removes every key that carries the
\* instance's prefix, and every other key of localStorage keeps its value
ClearRemovesOnlyPrefixed ==
  [][\A prefix \in Prefixes :
       CallClear(prefix)
       => /\ \A i \in 1..Len(localStorage') :
               /\ ~StartsWith(localStorage'[i].key, prefix)
               /\ HasItem(localStorage, localStorage'[i].key)
          /\ \A key \in StorageKeys \cup {HistoryKey(roomId) : roomId \in StoreRooms} :
               ~HasItem(localStorage', getKey(prefix, key))
          /\ \A i \in 1..Len(localStorage) :
               ~StartsWith(localStorage[i].key, prefix)
               => /\ HasItem(localStorage', localStorage[i].key)
                  /\ GetItem(localStorage', localStorage[i].key) = localStorage[i].value]_vars

\* clear() has removed the keys of its prefix from a storage that also held
\* a key of other code, whose name begins like the prefix
ClearedBesideForeignKey ==
  /\ last.op = "clear"
  /\ last.sent[1] = StoragePrefix
  /\ Len(last.sent[2]) > 0
  /\ localStorage = <<[key |-> <<"libp2pX", "key">>, value |-> [raw |-> "value"]]>>

\* C32: when a session closes, a different session registered for its peer
\* stays registered: the entry of the peer is removed only if it refers to
\* the closing session
CloseUnregistersOnlyItself ==
  [][\A e \in Made, e2 \in Made :
       (/\ sess[e].isActive
        /\ ~sess'[e].isActive
        /\ e2 # e
        /\ sess[e2].owner = sess[e].owner
        /\ Registered(sess[e].owner, e2)
        /\ sess'[e2].isActive)
       => \E i \in 1..Len(sessions'[sess[e].owner]) :
            sessions'[sess[e].owner][i].sid = e2]_vars

\* C33: the registry holds exactly the live sessions: every session stored in
\* a registry is active, and every active session is the one stored in the
\* registry of its node under its peer id
RegistryIsLiveSessions ==
  /\ \A n \in Nodes : \A i \in 1..Len(sessions[n]) :
       /\ sess[sessions[n][i].sid].isActive
       /\ sess[sessions[n][i].sid].peerId = sessions[n][i].peer
  /\ \A e \in Made :
       sess[e].isActive
       => /\ MapHas(sessions[sess[e].owner], sess[e].peerId)
          /\ MapGet(sessions[sess[e].owner], sess[e].peerId) = e

\* the calls of the application that went through openStream without finding
\* a session and have not returned yet
Opening(n, p) ==
  {c \in 1..Len(calls) : /\ calls[c].node = n
                         /\ calls[c].peer = p
                         /\ calls[c].op \in {"openStream", "sendMessage", "raw"}}

\* C34: overlapping openStream calls for a peer without session share one
\* dial and one session: no two of them each wait for a dial of their own,
\* and those whose dial has resolved hold the same session
OverlappingOpenStreamsShare ==
  \A n \in Local, p \in Nodes : \A c1 \in Opening(n, p), c2 \in Opening(n, p) :
    c1 # c2
    => /\ ~(calls[c1].pc \in {"dial", "retry"} /\ calls[c2].pc \in {"dial", "retry"})
       /\ (calls[c1].pc = "emit" /\ calls[c2].pc = "emit")
          => calls[c1].sid = calls[c2].sid

\* the two nodes have dialed each other, both dials have resolved and the
\* protocol handler has run for both streams
MutualDialProcessed ==
  /\ Len(streams) = 2
  /\ streams[1].dialer = streams[2].listener
  /\ streams[1].listener = streams[2].dialer
  /\ \A k \in 1..2 : chan[ListenerEnd(k)].st # "pending"

\* C35: after two nodes have dialed each other and both dials and both
\* inbound streams have been processed, each has one registered active
\* session for the other, and the two are the ends of one stream
MutualDialConverges ==
  MutualDialProcessed
  => LET a == streams[1].dialer
         b == streams[1].listener
     IN /\ MapHas(sessions[a], b)
        /\ MapHas(sessions[b], a)
        /\ sess[MapGet(sessions[a], b)].isActive
        /\ sess[MapGet(sessions[b], a)].isActive
        /\ MapGet(sessions[b], a) = Other(MapGet(sessions[a], b))

\* the events a node emits for what it reads from a stream
ReceiveEvents == {"message:received", "peer:handshake", "peer:typing", "peer:nickname"}

\* C36: once a session is closed nothing read from its stream is delivered:
\* no event is emitted for a frame and no message is added to the history
\* on behalf of a closed session
ClosedSessionDeliversNothing ==
  [][\A e \in Made :
       ~sess[e].isActive
       => /\ \A name \in ReceiveEvents : Emitted(e, name)' = Emitted(e, name)
          /\ \A msg \in PeerFrames(EndOwner(Other(e))) :
               PeerFrame(e, msg) => history' = history]_vars

\* the connected and disconnected events node n emitted about peer p, in order
ConnectionEvents(n, p) ==
  SelectSeq(events[n][p], LAMBDA ev : ev.name \in {"chat:connected", "chat:disconnected"})

\* C37: for every peer the connected and disconnected events alternate,
\* beginning with connected
ConnectedDisconnectedAlternate ==
  \A n \in Local, p \in Nodes :
    \A i \in 1..Len(ConnectionEvents(n, p)) :
      ConnectionEvents(n, p)[i].name =
        (IF i % 2 = 1 THEN "chat:connected" ELSE "chat:disconnected")

\* the payloads session e has pushed to its outbound queue, in order (the
\* peers outside the model leave what is written to them unread)
PushedBy(e) == Written(e) \o sess[e].outbound

\* C38: on every session, inbound or outbound, the first payload pushed to
\* the outbound queue is the node's Hello
HelloIsFirstPayload ==
  \A e \in Made :
    /\ PushedBy(e) # <<>>
    /\ PushedBy(e)[1] = Hello(sess[e].owner)

\* on a session made from an inbound stream and on one made by a sendMessage
\* that found no session, a chat message was pushed behind the Hello
ChatPushedBehindHello ==
  /\ \E e \in Made :
       /\ Inbound(e)
       /\ Len(PushedBy(e)) >= 2
       /\ PushedBy(e)[2].type = "m.room.message"
  /\ \E e \in Made :
       /\ ~Inbound(e)
       /\ Len(PushedBy(e)) >= 2
       /\ PushedBy(e)[2].type = "m.room.message"

\* C39: a chat message received from peer p is added only to the history of
\* a room p takes part in, the public room or the direct room of the node
\* and p, whatever room id the message carries
HistoryOnlyInSendersRooms ==
  [][\A e \in Made : \A msg \in PeerFrames(EndOwner(Other(e))) :
       PeerFrame(e, msg)
       => LET n == sess[e].owner
              p == sess[e].peerId
          IN \A i \in (Len(history[n]) + 1)..Len(history'[n]) :
               history'[n][i].room \in {"public", RoomIdOf(n, p)}]_vars

\* the localStorage keys the application writes through the instance with
\* this prefix
KeysOf(prefix) ==
  CASE prefix = StoragePrefix -> {getKey(StoragePrefix, key) : key \in StorageKeys}
    [] prefix = HistoryPrefix ->
         {getKey(HistoryPrefix, HistoryKey(roomId)) : roomId \in StoreRooms}
    [] prefix = SettingsPrefix -> {getKey(SettingsPrefix, <<"nickname">>)}
    [] OTHER -> {getKey(FriendsPrefix, <<"list">>)}

\* C40: the storage instances of the application have disjoint key spaces:
\* clear() on one leaves every entry written through another as it was, and
\* keys() of one lists no entry written through another
StorageNamespacesDisjoint ==
  [][\A prefix \in Prefixes : \A other \in Prefixes \ {prefix} :
       /\ CallClear(prefix)
          => \A key \in KeysOf(other) :
               HasItem(localStorage, key)
               => /\ HasItem(localStorage', key)
                  /\ GetItem(localStorage', key) = GetItem(localStorage, key)
       /\ CallKeys(prefix)
          => \A i \in 1..Len(last'.sent[2]) :
               getKey(prefix, last'.sent[2][i]) \notin KeysOf(other)]_vars

\* C31: importKeys with null, with key data that lack a privateKey or with a
\* key that cannot be decoded fails and leaves the stored record as it was;
\* importKeys of what exportKeys returned succeeds and stores a record whose
\* peer id is the one of the exported identity
ImportKeysValidates ==
  [][/\ \A keyData \in {Null, KeyData(Undefined, NoPeerId),
                        KeyData(EmptyString, PeerIdString(1)),
                        KeyData(NotBase64, PeerIdString(1)),
                        KeyData(ToBase64(Garbage), PeerIdString(1))} :
          CallImportKeys(keyData)
          => /\ last'.result = "error"
             /\ localStorage' = localStorage
     /\ (/\ last.op = "exportKeys"
         /\ ~last.sent[1].isNull
         /\ CallImportKeys(last.sent[1]))
        => /\ last'.result = "ok"
           /\ HasKeys(localStorage')
           /\ StoredKeys(localStorage').peerId = last.sent[1].peerId
           /\ last'.sent[2] = last.sent[1].peerId]_vars

\* an import of bytes that are no key has failed while a record is stored
ImportFailedRecordKept ==
  /\ last.op = "importKeys"
  /\ last.result = "error"
  /\ last.sent[1].privateKey = ToBase64(Garbage)
  /\ HasKeys(localStorage)
  /\ StoredKeys(localStorage).peerId = PeerIdString(2)
====
